---------------------------- MODULE Spec2Model ----------------------------
(***************************************************************************)
(* Model of the validation-package generator                               *)
(*   src/.cursor/skills/step3-generate-validation-package/scripts/         *)
(*       generate_validation_package.py                                    *)
(*                                                                         *)
(* A Python str is modelled as a sequence of one-character strings, so     *)
(* that escaping, trimming, line splitting, substring search and the       *)
(* regular expressions of the rule parser are computed character by        *)
(* character, as the code computes them.                                   *)
(***************************************************************************)
EXTENDS Integers, Sequences, FiniteSets, TLC

(***************************************************************************)
(* Characters and the str methods the script uses                          *)
(***************************************************************************)

\* The characters str.strip() removes and the regex class \s matches
\* (the ASCII ones that can occur in a CSV cell or a template).
WS == {" ", "\t", "\n", "\r"}

LowerChars ==
    <<"a","b","c","d","e","f","g","h","i","j","k","l","m",
      "n","o","p","q","r","s","t","u","v","w","x","y","z">>

UpperChars ==
    <<"A","B","C","D","E","F","G","H","I","J","K","L","M",
      "N","O","P","Q","R","S","T","U","V","W","X","Y","Z">>

Digits == {"0","1","2","3","4","5","6","7","8","9"}

DigitChars == <<"0","1","2","3","4","5","6","7","8","9">>

\* The regex class \w (ASCII part).
WordChars ==
    {LowerChars[i] : i \in 1..26} \cup {UpperChars[i] : i \in 1..26}
        \cup Digits \cup {"_"}

Min(S) == CHOOSE x \in S : \A y \in S : x <= y

Max(S) == CHOOSE x \in S : \A y \in S : x >= y

\* str.upper() on one character
UpperChar(c) ==
    IF \E i \in 1..26 : LowerChars[i] = c
    THEN UpperChars[CHOOSE i \in 1..26 : LowerChars[i] = c]
    ELSE c

\* str.upper()
Upper(s) == [i \in 1..Len(s) |-> UpperChar(s[i])]

\* s[i-1 : i-1+n] compared with w: does w occur in s at (1-based) position i
OccursAt(s, i, w) ==
    /\ i >= 1
    /\ i + Len(w) - 1 <= Len(s)
    /\ \A k \in 1..Len(w) : s[i + k - 1] = w[k]

\* the same, ignoring letter case (re.IGNORECASE); w is given in upper case
OccursAtI(s, i, w) ==
    /\ i >= 1
    /\ i + Len(w) - 1 <= Len(s)
    /\ \A k \in 1..Len(w) : UpperChar(s[i + k - 1]) = w[k]

\* the operator `sub in s`
Contains(s, sub) == \E i \in 1..(Len(s) - Len(sub) + 1) : OccursAt(s, i, sub)

\* str.startswith
StartsWith(s, p) == OccursAt(s, 1, p)

\* str.strip()
Strip(s) ==
    LET keep == {i \in 1..Len(s) : s[i] \notin WS}
    IN  IF keep = {} THEN <<>> ELSE SubSeq(s, Min(keep), Max(keep))

\* str.split(sep) for a one-character separator: the pieces between the
\* separators, in order (one more piece than there are separators).
Split(s, sep) ==
    LET cuts == {i \in 1..Len(s) : s[i] = sep}
        n    == Cardinality(cuts)
        \* position of the k-th separator; 0 before the first, Len+1 after the last
        cut(k) == IF k = 0 THEN 0
                  ELSE IF k = n + 1 THEN Len(s) + 1
                  ELSE CHOOSE p \in cuts : Cardinality({q \in cuts : q < p}) = k - 1
    IN  [k \in 1..(n + 1) |-> SubSeq(s, cut(k - 1) + 1, cut(k) - 1)]

\* sep.join(parts)
RECURSIVE Join(_, _)
Join(parts, sep) ==
    IF parts = <<>> THEN <<>>
    ELSE IF Len(parts) = 1 THEN parts[1]
    ELSE parts[1] \o sep \o Join(Tail(parts), sep)

\* str.replace(old, new) from position `from` on: the occurrences of old are
\* taken left to right and do not overlap.
RECURSIVE ReplaceFrom(_, _, _, _)
ReplaceFrom(s, old, new, from) ==
    LET occ == {i \in from..(Len(s) - Len(old) + 1) : OccursAt(s, i, old)}
    IN  IF occ = {} THEN SubSeq(s, from, Len(s))
        ELSE LET i == Min(occ)
             IN  SubSeq(s, from, i - 1) \o new
                    \o ReplaceFrom(s, old, new, i + Len(old))

\* str.replace(old, new)
Replace(s, old, new) == ReplaceFrom(s, old, new, 1)

\* str(n) for n >= 0, as an f-string renders an int
RECURSIVE Decimal(_)
Decimal(n) ==
    IF n < 10 THEN <<DigitChars[n + 1]>>
    ELSE Decimal(n \div 10) \o <<DigitChars[(n % 10) + 1]>>


(***************************************************************************)
(* The literal text of the generated blocks                                *)
(***************************************************************************)

\* '\n'
NL ==
    <<"\n">>

\* '        -- '
L_CMT ==
    <<" "," "," "," "," "," "," "," ","-","-"," ">>

\* '        UPDATE '
L_UPDATE ==
    <<" "," "," "," "," "," "," "," ","U","P","D","A","T","E"," ">>

\* ' t\n'
L_T_NL ==
    <<" ","t","\n">>

\* "        SET t.status = 'E',\n"
L_SET ==
    <<" "," "," "," "," "," "," "," ","S","E","T"," ","t",".","s","t","a","t","u","s"," ","="," ",
      "'","E","'",",","\n">>

\* "            t.error_message = NVL(t.error_message, '') || '"
L_ERRMSG ==
    <<" "," "," "," "," "," "," "," "," "," "," "," ","t",".","e","r","r","o","r","_","m","e","s",
      "s","a","g","e"," ","="," ","N","V","L","(","t",".","e","r","r","o","r","_","m","e","s","s",
      "a","g","e",","," ","'","'",")"," ","|","|"," ","'">>

\* '        WHERE t.'
L_WHERE ==
    <<" "," "," "," "," "," "," "," ","W","H","E","R","E"," ","t",".">>

\* ' = p_batch_id'
L_BATCH_EQ ==
    <<" ","="," ","p","_","b","a","t","c","h","_","i","d">>

\* '        AND t.'
L_AND ==
    <<" "," "," "," "," "," "," "," ","A","N","D"," ","t",".">>

\* '. Mandatory: '
L_MAND_HDR ==
    <<"."," ","M","a","n","d","a","t","o","r","y",":"," ">>

\* " is mandatory and cannot be NULL; '\n"
L_MAND_MSG ==
    <<" ","i","s"," ","m","a","n","d","a","t","o","r","y"," ","a","n","d"," ","c","a","n","n","o",
      "t"," ","b","e"," ","N","U","L","L",";"," ","'","\n">>

\* ' IS NULL;\n'
L_IS_NULL ==
    <<" ","I","S"," ","N","U","L","L",";","\n">>

\* '        -- Validation: '
L_VAL_HDR ==
    <<" "," "," "," "," "," "," "," ","-","-"," ","V","a","l","i","d","a","t","i","o","n",":"," ">>

\* ' - '
L_DASH ==
    <<" ","-"," ">>

\* ' must be one of ('
L_ONE_OF ==
    <<" ","m","u","s","t"," ","b","e"," ","o","n","e"," ","o","f"," ","(">>

\* "); '\n"
L_MSG_END_PAREN ==
    <<")",";"," ","'","\n">>

\* '\n        AND t.'
L_GUARD_PRE ==
    <<"\n"," "," "," "," "," "," "," "," ","A","N","D"," ","t",".">>

\* ' IS NOT NULL'
L_IS_NOT_NULL ==
    <<" ","I","S"," ","N","O","T"," ","N","U","L","L">>

\* ' NOT IN ('
L_NOT_IN ==
    <<" ","N","O","T"," ","I","N"," ","(">>

\* ');\n'
L_CLOSE_STMT ==
    <<")",";","\n">>

\* " must be numeric; '\n"
L_NUMERIC_MSG ==
    <<" ","m","u","s","t"," ","b","e"," ","n","u","m","e","r","i","c",";"," ","'","\n">>

\* '        AND NOT REGEXP_LIKE(t.'
L_NOT_REGEXP ==
    <<" "," "," "," "," "," "," "," ","A","N","D"," ","N","O","T"," ","R","E","G","E","X","P","_",
      "L","I","K","E","(","t",".">>

\* ", ''^[0-9]+(\\.[0-9]+)?$'');\n"
L_REGEXP_TAIL ==
    <<","," ","'","'","^","[","0","-","9","]","+","(","\\",".","[","0","-","9","]","+",")","?","$",
      "'","'",")",";","\n">>

\* ' exceeds maximum length of '
L_EXCEEDS ==
    <<" ","e","x","c","e","e","d","s"," ","m","a","x","i","m","u","m"," ","l","e","n","g","t","h",
      " ","o","f"," ">>

\* "; '\n"
L_MSG_END ==
    <<";"," ","'","\n">>

\* '        AND LENGTH(t.'
L_AND_LENGTH ==
    <<" "," "," "," "," "," "," "," ","A","N","D"," ","L","E","N","G","T","H","(","t",".">>

\* ') > '
L_GT ==
    <<")"," ",">"," ">>

\* ';\n'
L_SEMI_NL ==
    <<";","\n">>

\* " contains special characters; '\n"
L_SPECIAL_MSG ==
    <<" ","c","o","n","t","a","i","n","s"," ","s","p","e","c","i","a","l"," ","c","h","a","r","a",
      "c","t","e","r","s",";"," ","'","\n">>

\* ') != LENGTHB(t.'
L_NE_LENGTHB ==
    <<")"," ","!","="," ","L","E","N","G","T","H","B","(","t",".">>

\* ' does not exist in '
L_NOT_EXIST_MSG ==
    <<" ","d","o","e","s"," ","n","o","t"," ","e","x","i","s","t"," ","i","n"," ">>

\* '        AND NOT EXISTS (\n'
L_NOT_EXISTS ==
    <<" "," "," "," "," "," "," "," ","A","N","D"," ","N","O","T"," ","E","X","I","S","T","S"," ",
      "(","\n">>

\* '            SELECT 1 FROM '
L_SELECT ==
    <<" "," "," "," "," "," "," "," "," "," "," "," ","S","E","L","E","C","T"," ","1"," ","F","R",
      "O","M"," ">>

\* ' ref\n'
L_REF_NL ==
    <<" ","r","e","f","\n">>

\* '            WHERE ref.'
L_WHERE_REF ==
    <<" "," "," "," "," "," "," "," "," "," "," "," ","W","H","E","R","E"," ","r","e","f",".">>

\* ' = t.'
L_EQ_T ==
    <<" ","="," ","t",".">>

\* '        );\n'
L_END_EXISTS ==
    <<" "," "," "," "," "," "," "," ",")",";","\n">>

\* '        -- TODO: Implement validation for '
L_TODO_VAL ==
    <<" "," "," "," "," "," "," "," ","-","-"," ","T","O","D","O",":"," ","I","m","p","l","e","m",
      "e","n","t"," ","v","a","l","i","d","a","t","i","o","n"," ","f","o","r"," ">>

\* ': '
L_COLON ==
    <<":"," ">>

\* '        -- UPDATE '
L_C_UPDATE ==
    <<" "," "," "," "," "," "," "," ","-","-"," ","U","P","D","A","T","E"," ">>

\* "        -- SET t.status = 'E',\n"
L_C_SET ==
    <<" "," "," "," "," "," "," "," ","-","-"," ","S","E","T"," ","t",".","s","t","a","t","u","s",
      " ","="," ","'","E","'",",","\n">>

\* "        --     t.error_message = NVL(t.error_message, '') || '"
L_C_ERRMSG ==
    <<" "," "," "," "," "," "," "," ","-","-"," "," "," "," "," ","t",".","e","r","r","o","r","_",
      "m","e","s","s","a","g","e"," ","="," ","N","V","L","(","t",".","e","r","r","o","r","_","m",
      "e","s","s","a","g","e",","," ","'","'",")"," ","|","|"," ","'">>

\* " validation failed; '\n"
L_VAL_FAILED ==
    <<" ","v","a","l","i","d","a","t","i","o","n"," ","f","a","i","l","e","d",";"," ","'","\n">>

\* '        -- WHERE t.'
L_C_WHERE ==
    <<" "," "," "," "," "," "," "," ","-","-"," ","W","H","E","R","E"," ","t",".">>

\* '        -- AND <condition>;\n'
L_C_COND ==
    <<" "," "," "," "," "," "," "," ","-","-"," ","A","N","D"," ","<","c","o","n","d","i","t","i",
      "o","n",">",";","\n">>

\* '        -- TODO: Implement transformation for '
L_TODO_TR ==
    <<" "," "," "," "," "," "," "," ","-","-"," ","T","O","D","O",":"," ","I","m","p","l","e","m",
      "e","n","t"," ","t","r","a","n","s","f","o","r","m","a","t","i","o","n"," ","f","o","r"," ">>

\* '        -- SET t.'
L_C_SET_T ==
    <<" "," "," "," "," "," "," "," ","-","-"," ","S","E","T"," ","t",".">>

\* ' = <transformed_value>\n'
L_TRANSFORMED ==
    <<" ","="," ","<","t","r","a","n","s","f","o","r","m","e","d","_","v","a","l","u","e",">","\n">>

\* ' = p_batch_id;\n'
L_BATCH_EQ_SEMI ==
    <<" ","="," ","p","_","b","a","t","c","h","_","i","d",";","\n">>

\* '        -- No mandatory field checks defined.\n'
NO_MANDATORY ==
    <<" "," "," "," "," "," "," "," ","-","-"," ","N","o"," ","m","a","n","d","a","t","o","r","y",
      " ","f","i","e","l","d"," ","c","h","e","c","k","s"," ","d","e","f","i","n","e","d",".","\n">>

\* '        -- No custom validation rules defined.\n'
NO_VALIDATION ==
    <<" "," "," "," "," "," "," "," ","-","-"," ","N","o"," ","c","u","s","t","o","m"," ","v","a",
      "l","i","d","a","t","i","o","n"," ","r","u","l","e","s"," ","d","e","f","i","n","e","d",".",
      "\n">>

\* '        -- No transformation rules defined.\n'
NO_TRANSFORMATION ==
    <<" "," "," "," "," "," "," "," ","-","-"," ","N","o"," ","t","r","a","n","s","f","o","r","m",
      "a","t","i","o","n"," ","r","u","l","e","s"," ","d","e","f","i","n","e","d",".","\n">>

\* "'"
QUOTE ==
    <<"'">>

\* "''"
QUOTE2 ==
    <<"'","'">>

\* ', '
COMMA_SP ==
    <<","," ">>

\* 'BATCH'
BATCH ==
    <<"B","A","T","C","H">>

\* 'BATCH_ID'
BATCH_ID ==
    <<"B","A","T","C","H","_","I","D">>

\* '_VAL_PKG'
VAL_PKG ==
    <<"_","V","A","L","_","P","K","G">>

\* '--'
CMT_MARK ==
    <<"-","-">>

\* 'DROP '
KW_DROP ==
    <<"D","R","O","P"," ">>

\* 'TRUNCATE '
KW_TRUNCATE ==
    <<"T","R","U","N","C","A","T","E"," ">>

\* 'ALTER '
KW_ALTER ==
    <<"A","L","T","E","R"," ">>

\* '  Line '
W_LINE ==
    <<" "," ","L","i","n","e"," ">>

\* '{{'
PH_OPEN ==
    <<"{","{">>

\* '}}'
PH_CLOSE ==
    <<"}","}">>

\* 'PKG_NAME'
K_PKG_NAME ==
    <<"P","K","G","_","N","A","M","E">>

\* 'TABLE_NAME'
K_TABLE_NAME ==
    <<"T","A","B","L","E","_","N","A","M","E">>

\* 'DATE'
K_DATE ==
    <<"D","A","T","E">>

\* 'BATCH_COLUMN'
K_BATCH_COLUMN ==
    <<"B","A","T","C","H","_","C","O","L","U","M","N">>

\* 'MANDATORY_CHECKS'
K_MANDATORY_CHECKS ==
    <<"M","A","N","D","A","T","O","R","Y","_","C","H","E","C","K","S">>

\* 'VALIDATION_CHECKS'
K_VALIDATION_CHECKS ==
    <<"V","A","L","I","D","A","T","I","O","N","_","C","H","E","C","K","S">>

\* 'TRANSFORMATION_LOGIC'
K_TRANSFORMATION_LOGIC ==
    <<"T","R","A","N","S","F","O","R","M","A","T","I","O","N","_","L","O","G","I","C">>

\* 'YES'
YES ==
    <<"Y","E","S">>

(***************************************************************************)
(* Regular expressions of parse_validation_rule, matched as re.search      *)
(* matches them: re.IGNORECASE, leftmost start, greedy repetition.  Each   *)
(* matcher returns the position after the match, or 0 for no match.        *)
(***************************************************************************)

\* \s* at position i: the position after the longest run of whitespace
SkipWS(s, i) == Min({j \in i..Len(s) : s[j] \notin WS} \cup {Len(s) + 1})

\* \s+ at position i
WsPlus(s, i) ==
    IF i >= 1 /\ i <= Len(s) /\ s[i] \in WS THEN SkipWS(s, i) ELSE 0

\* w1\s+w2\s+...\s+wn at position i, the words given in upper case
RECURSIVE Phrase(_, _, _)
Phrase(s, i, words) ==
    IF ~OccursAtI(s, i, words[1]) THEN 0
    ELSE LET j == i + Len(words[1])
         IN  IF Len(words) = 1 THEN j
             ELSE LET k == WsPlus(s, j)
                  IN  IF k = 0 THEN 0 ELSE Phrase(s, k, Tail(words))

\* (alt1|alt2|...) of phrases at position i; the alternatives of every
\* group of the script begin with different letters, so at most one matches
PhraseAny(s, i, alts) ==
    LET ends == {Phrase(s, i, a) : a \in alts} \ {0}
    IN  IF ends = {} THEN 0 ELSE Max(ends)

\* '[^']+' at position i
QuotedAt(s, i) ==
    IF i >= 1 /\ i <= Len(s) /\ s[i] = "'"
    THEN LET close == {j \in (i + 1)..Len(s) : s[j] = "'"}
         IN  IF close = {} \/ Min(close) = i + 1 THEN 0 ELSE Min(close) + 1
    ELSE 0

\* \s*(?:,\s*|or\s+) at position i
SepAt(s, i) ==
    LET k == SkipWS(s, i)
    IN  IF k <= Len(s) /\ s[k] = "," THEN SkipWS(s, k + 1)
        ELSE IF OccursAtI(s, k, <<"O","R">>) THEN WsPlus(s, k + 2)
        ELSE 0

\* ((?:'[^']+'\s*(?:,\s*|or\s+))*'[^']+') at position i: the greedy star
\* takes every literal that is followed by a separator and another literal.
\* ListEndFrom: e is the position after the literal at i (0: none);
\* ListEndNext: r is the end of the list that starts after the separator.
RECURSIVE ListEnd(_, _)
ListEndNext(e, r) == IF r = 0 THEN e ELSE r

ListEndSep(s, e, n) == IF n = 0 THEN e ELSE ListEndNext(e, ListEnd(s, n))

ListEndFrom(s, e) == IF e = 0 THEN 0 ELSE ListEndSep(s, e, SepAt(s, e))

ListEnd(s, i) == ListEndFrom(s, QuotedAt(s, i))

\* (?:should|must)\s+only\s+be\s+ at position i: where group 1 starts
OnlyHeadAt(s, i) ==
    WsPlus(s, PhraseAny(s, i, {<<<<"S","H","O","U","L","D">>, <<"O","N","L","Y">>, <<"B","E">>>>,
                               <<<<"M","U","S","T">>, <<"O","N","L","Y">>, <<"B","E">>>>}))

\* the pattern-1 regex at position i: the position after the match
OnlyMatchAt(s, i) == ListEnd(s, OnlyHeadAt(s, i))

\* only_match: does re.search find the pattern-1 regex
OnlyMatch(s) == \E i \in 1..Len(s) : OnlyMatchAt(s, i) # 0

\* the text of group 1 of the match that starts at i
OnlyGroupAt(s, i) == SubSeq(s, OnlyHeadAt(s, i), OnlyMatchAt(s, i) - 1)

\* only_match.group(1): re.search returns the leftmost match
OnlyGroup(s) == OnlyGroupAt(s, Min({k \in 1..Len(s) : OnlyMatchAt(s, k) # 0}))

\* re.findall(r"'([^']+)'", g) from position `from` on
RECURSIVE FindAllQuoted(_, _)
FindAllFrom(g, i, e) == <<SubSeq(g, i + 1, e - 2)>> \o FindAllQuoted(g, e)

FindAllAt(g, i) == FindAllFrom(g, i, QuotedAt(g, i))

FindAllIn(g, starts) == IF starts = {} THEN <<>> ELSE FindAllAt(g, Min(starts))

FindAllQuoted(g, from) == FindAllIn(g, {i \in from..Len(g) : QuotedAt(g, i) # 0})

\* the qualifier search without re.IGNORECASE
IsConditionalCaseSensitive(s) ==
    \E i \in 1..Len(s) :
        /\ OccursAt(s, i, <<"i","f">>)
        /\ \E j \in (i + 2)..Len(s) :
            /\ \A k \in (i + 2)..(j - 1) : s[k] # "\n"
            /\ OccursAt(s, j, <<"n","o","t">>)
            /\ OccursAt(s, SkipWS(s, j + 3), <<"n","u","l","l">>)

\* re.search(r"if.*not\s*null", rule_text, re.IGNORECASE): `.` matches any
\* character but the line break
IsConditional(s) ==
    \E i \in 1..Len(s) :
        /\ OccursAtI(s, i, <<"I","F">>)
        /\ \E j \in (i + 2)..Len(s) :
            /\ \A k \in (i + 2)..(j - 1) : s[k] # "\n"
            /\ OccursAtI(s, j, <<"N","O","T">>)
            /\ OccursAtI(s, SkipWS(s, j + 3), <<"N","U","L","L">>)

\* re.search(r"(must|should)\s+be\s+(numeric|a\s+number)", ...)
NumericMatch(s) ==
    \E i \in 1..Len(s) :
        PhraseAny(s, i,
            {<<<<"M","U","S","T">>, <<"B","E">>, <<"N","U","M","E","R","I","C">>>>,
             <<<<"M","U","S","T">>, <<"B","E">>, <<"A">>, <<"N","U","M","B","E","R">>>>,
             <<<<"S","H","O","U","L","D">>, <<"B","E">>, <<"N","U","M","E","R","I","C">>>>,
             <<<<"S","H","O","U","L","D">>, <<"B","E">>, <<"A">>, <<"N","U","M","B","E","R">>>>}) # 0

\* d if a digit stands at position d (\d+ can match there), else 0
DigitAfter(s, d) == IF d # 0 /\ d <= Len(s) /\ s[d] \in Digits THEN d ELSE 0

\* (?:length|max\s+length)\s+(?:must\s+not\s+exceed|is|of)\s+ at position
\* i, followed by a digit: where group 1 (\d+) starts
LenHeadAt(s, i) ==
    DigitAfter(s, WsPlus(s, PhraseAny(s, i,
                {<<<<"L","E","N","G","T","H">>, <<"M","U","S","T">>, <<"N","O","T">>,
                   <<"E","X","C","E","E","D">>>>,
                 <<<<"L","E","N","G","T","H">>, <<"I","S">>>>,
                 <<<<"L","E","N","G","T","H">>, <<"O","F">>>>,
                 <<<<"M","A","X">>, <<"L","E","N","G","T","H">>, <<"M","U","S","T">>,
                   <<"N","O","T">>, <<"E","X","C","E","E","D">>>>,
                 <<<<"M","A","X">>, <<"L","E","N","G","T","H">>, <<"I","S">>>>,
                 <<<<"M","A","X">>, <<"L","E","N","G","T","H">>, <<"O","F">>>>})))

\* len_match
LenMatch(s) == \E i \in 1..Len(s) : LenHeadAt(s, i) # 0

\* the longest run of digits from d on (\d+ is greedy)
DigitsAt(s, d) ==
    SubSeq(s, d, Min({j \in d..Len(s) : s[j] \notin Digits} \cup {Len(s) + 1}) - 1)

\* len_match.group(1)
LenGroup(s) == DigitsAt(s, LenHeadAt(s, Min({k \in 1..Len(s) : LenHeadAt(s, k) # 0})))

\* re.search(r"(cannot|must\s+not|should\s+not)\s+contain\s+special\s+char", ...)
SpecialMatch(s) ==
    \E i \in 1..Len(s) :
        PhraseAny(s, i,
            {<<<<"C","A","N","N","O","T">>, <<"C","O","N","T","A","I","N">>,
               <<"S","P","E","C","I","A","L">>, <<"C","H","A","R">>>>,
             <<<<"M","U","S","T">>, <<"N","O","T">>, <<"C","O","N","T","A","I","N">>,
               <<"S","P","E","C","I","A","L">>, <<"C","H","A","R">>>>,
             <<<<"S","H","O","U","L","D">>, <<"N","O","T">>, <<"C","O","N","T","A","I","N">>,
               <<"S","P","E","C","I","A","L">>, <<"C","H","A","R">>>>}) # 0

\* \w+ at position i: the position after the longest run of word characters
WordEnd(s, i) == Min({j \in i..Len(s) : s[j] \notin WordChars} \cup {Len(s) + 1})

\* (?:must|should)\s+exist\s+in\s+ at position i: where group 1 starts
ExistsHeadAt(s, i) ==
    WsPlus(s, PhraseAny(s, i,
                {<<<<"M","U","S","T">>, <<"E","X","I","S","T">>, <<"I","N">>>>,
                 <<<<"S","H","O","U","L","D">>, <<"E","X","I","S","T">>, <<"I","N">>>>}))

\* the rest of the pattern-5 regex once group 1 (\w+) is known to span
\* b..c-1: \.(\w+); <<start of group 1, position of the dot, position
\* after group 2>>, or <<0, 0, 0>>
ExistsDotAt(s, b, c) ==
    IF c = b \/ c > Len(s) THEN <<0, 0, 0>>
    ELSE IF s[c] # "." \/ WordEnd(s, c + 1) = c + 1 THEN <<0, 0, 0>>
    ELSE <<b, c, WordEnd(s, c + 1)>>

\* (\w+)\.(\w+) at position b, both groups greedy
ExistsRefAt(s, b) ==
    IF b = 0 THEN <<0, 0, 0>> ELSE ExistsDotAt(s, b, WordEnd(s, b))

\* the pattern-5 regex at position i
ExistsMatchAt(s, i) == ExistsRefAt(s, ExistsHeadAt(s, i))

\* exists_match
ExistsMatch(s) == \E i \in 1..Len(s) : ExistsMatchAt(s, i)[1] # 0

\* the two groups of the match m
GroupsOf(s, m) == <<SubSeq(s, m[1], m[2] - 1), SubSeq(s, m[2] + 1, m[3] - 1)>>

\* (exists_match.group(1), exists_match.group(2))
ExistsGroups(s) ==
    GroupsOf(s, ExistsMatchAt(s, Min({k \in 1..Len(s) : ExistsMatchAt(s, k)[1] # 0})))

(***************************************************************************)
(* Field rules and the batch column                                        *)
(***************************************************************************)

\* one dict of the list parse_mapping_sheet returns
FieldRule(f, m, v, t) ==
    [field |-> f, mandatory |-> m, validation |-> v, transformation |-> t]

\* detect_batch_column returning the upper-cased name it tested
detect_batch_column_Upper(rs) ==
    LET hits == {i \in 1..Len(rs) : Contains(Upper(rs[i].field), BATCH)}
    IN  IF hits = {} THEN BATCH_ID ELSE Upper(rs[Min(hits)].field)

\* detect_batch_column(rules)
detect_batch_column(rs) ==
    LET hits == {i \in 1..Len(rs) : Contains(Upper(rs[i].field), BATCH)}
    IN  IF hits = {} THEN BATCH_ID ELSE rs[Min(hits)].field

(***************************************************************************)
(* generate_mandatory_sql                                                  *)
(***************************************************************************)

\* the f-string block of one mandatory check
MandatoryBlock(table_name, batch_col, field, check_num) ==
    LET escaped_field == Replace(field, QUOTE, QUOTE2)
    IN  L_CMT \o Decimal(check_num) \o L_MAND_HDR \o field \o NL
        \o L_UPDATE \o table_name \o L_T_NL
        \o L_SET
        \o L_ERRMSG \o escaped_field \o L_MAND_MSG
        \o L_WHERE \o batch_col \o L_BATCH_EQ \o NL
        \o L_AND \o field \o L_IS_NULL

\* the skip test without .upper(): it compares the names as written
IsBatchFieldExact(field, batch_col) == field = batch_col

\* is this mandatory rule skipped by the loop (it is the batch column)
IsBatchField(field, batch_col) == Upper(field) = Upper(batch_col)

\* the loop with check_num += 1 placed before the skip of the batch column
RECURSIVE MandatoryBlocksCountAll(_, _, _, _)
MandatoryBlocksCountAll(table_name, batch_col, mandatory_fields, check_num) ==
    IF mandatory_fields = <<>> THEN <<>>
    ELSE IF IsBatchField(mandatory_fields[1].field, batch_col)
    THEN MandatoryBlocksCountAll(table_name, batch_col, Tail(mandatory_fields), check_num + 1)
    ELSE <<MandatoryBlock(table_name, batch_col, mandatory_fields[1].field, check_num + 1)>>
            \o MandatoryBlocksCountAll(table_name, batch_col, Tail(mandatory_fields),
                                       check_num + 1)

\* the loop over mandatory_fields: blocks appended from check_num + 1 on
RECURSIVE MandatoryBlocks(_, _, _, _)
MandatoryBlocks(table_name, batch_col, mandatory_fields, check_num) ==
    IF mandatory_fields = <<>> THEN <<>>
    ELSE LET field == mandatory_fields[1].field
         IN  IF IsBatchField(field, batch_col)
             THEN MandatoryBlocks(table_name, batch_col, Tail(mandatory_fields), check_num)
             ELSE <<MandatoryBlock(table_name, batch_col, field, check_num + 1)>>
                    \o MandatoryBlocks(table_name, batch_col, Tail(mandatory_fields),
                                       check_num + 1)

IsMandatory(r) == r.mandatory

\* generate_mandatory_sql without the `if blocks else` of its last line
generate_mandatory_sql_NoFinalTest(table_name, batch_col, rs) ==
    IF SelectSeq(rs, IsMandatory) = <<>> THEN NO_MANDATORY
    ELSE Join(MandatoryBlocks(table_name, batch_col, SelectSeq(rs, IsMandatory), 0), NL)

\* generate_mandatory_sql(table_name, batch_col, rules)
generate_mandatory_sql(table_name, batch_col, rs) ==
    LET mandatory_fields == SelectSeq(rs, IsMandatory)
        blocks == MandatoryBlocks(table_name, batch_col, mandatory_fields, 0)
    IN  IF mandatory_fields = <<>> THEN NO_MANDATORY
        ELSE IF blocks # <<>> THEN Join(blocks, NL) ELSE NO_MANDATORY

(***************************************************************************)
(* parse_validation_rule                                                   *)
(***************************************************************************)

\* _escape_plsql returning its argument as it is
escape_plsql_None(text) == text

\* _escape_plsql(text)
escape_plsql(text) == Replace(text, QUOTE, QUOTE2)

\* ", ".join(f"''{v}''" for v in values)
InListMsg(values) ==
    Join([k \in 1..Len(values) |-> QUOTE2 \o values[k] \o QUOTE2], COMMA_SP)

\* ", ".join(f"'{v}'" for v in values)
InListSql(values) ==
    Join([k \in 1..Len(values) |-> QUOTE \o values[k] \o QUOTE], COMMA_SP)

\* the three lines every live validation block starts with, up to the
\* opening quote of the message
ValidationHead(field, rule_text, table_name) ==
    L_VAL_HDR \o field \o L_DASH \o rule_text \o NL
        \o L_UPDATE \o table_name \o L_T_NL
        \o L_SET
        \o L_ERRMSG \o escape_plsql(field)

\* null_guard
NullGuard(field, rule_text) ==
    IF IsConditional(rule_text) THEN L_GUARD_PRE \o field \o L_IS_NOT_NULL ELSE <<>>

\* the f-string block of pattern 1 for the literals `values`
OnlyBlockOf(field, rule_text, table_name, batch_col, values) ==
    ValidationHead(field, rule_text, table_name)
            \o L_ONE_OF \o InListMsg(values) \o L_MSG_END_PAREN
        \o L_WHERE \o batch_col \o L_BATCH_EQ \o NullGuard(field, rule_text) \o NL
        \o L_AND \o field \o L_NOT_IN \o InListSql(values) \o L_CLOSE_STMT

\* pattern 1: the enumeration block
OnlyBlock(field, rule_text, table_name, batch_col) ==
    OnlyBlockOf(field, rule_text, table_name, batch_col,
                FindAllQuoted(OnlyGroup(rule_text), 1))

\* pattern 2: the numeric block
NumericBlock(field, rule_text, table_name, batch_col) ==
    ValidationHead(field, rule_text, table_name) \o L_NUMERIC_MSG
        \o L_WHERE \o batch_col \o L_BATCH_EQ \o NL
        \o L_AND \o field \o L_IS_NOT_NULL \o NL
        \o L_NOT_REGEXP \o field \o L_REGEXP_TAIL

\* the f-string block of pattern 3 for the digits max_len
LenBlockOf(field, rule_text, table_name, batch_col, max_len) ==
    ValidationHead(field, rule_text, table_name)
            \o L_EXCEEDS \o max_len \o L_MSG_END
        \o L_WHERE \o batch_col \o L_BATCH_EQ \o NL
        \o L_AND \o field \o L_IS_NOT_NULL \o NL
        \o L_AND_LENGTH \o field \o L_GT \o max_len \o L_SEMI_NL

\* pattern 3: the length block
LenBlock(field, rule_text, table_name, batch_col) ==
    LenBlockOf(field, rule_text, table_name, batch_col, LenGroup(rule_text))

\* pattern 4: the special-characters block
SpecialBlock(field, rule_text, table_name, batch_col) ==
    ValidationHead(field, rule_text, table_name) \o L_SPECIAL_MSG
        \o L_WHERE \o batch_col \o L_BATCH_EQ \o NL
        \o L_AND \o field \o L_IS_NOT_NULL \o NL
        \o L_AND_LENGTH \o field \o L_NE_LENGTHB \o field \o L_CLOSE_STMT

\* the f-string block of pattern 5 for groups = (ref_table, ref_col)
ExistsBlockOf(field, rule_text, table_name, batch_col, groups) ==
    ValidationHead(field, rule_text, table_name)
            \o L_NOT_EXIST_MSG \o groups[1] \o L_MSG_END
        \o L_WHERE \o batch_col \o L_BATCH_EQ \o NL
        \o L_AND \o field \o L_IS_NOT_NULL \o NL
        \o L_NOT_EXISTS
        \o L_SELECT \o groups[1] \o L_REF_NL
        \o L_WHERE_REF \o groups[2] \o L_EQ_T \o field \o NL
        \o L_END_EXISTS

\* pattern 5: the cross-table lookup block
ExistsBlock(field, rule_text, table_name, batch_col) ==
    ExistsBlockOf(field, rule_text, table_name, batch_col, ExistsGroups(rule_text))

\* the fallback: a TODO comment and a commented-out skeleton
FallbackBlock(field, rule_text, table_name, batch_col) ==
    L_TODO_VAL \o field \o L_COLON \o rule_text \o NL
        \o L_C_UPDATE \o table_name \o L_T_NL
        \o L_C_SET
        \o L_C_ERRMSG \o escape_plsql(field) \o L_VAL_FAILED
        \o L_C_WHERE \o batch_col \o L_BATCH_EQ \o NL
        \o L_C_COND

\* the cascade with the length pattern tried before the numeric one
parse_validation_rule_LengthFirst(field, rule_text, table_name, batch_col) ==
    IF rule_text = <<>> THEN [sql |-> <<>>, parsed |-> TRUE]
    ELSE IF OnlyMatch(rule_text)
    THEN [sql |-> OnlyBlock(field, rule_text, table_name, batch_col), parsed |-> TRUE]
    ELSE IF LenMatch(rule_text)
    THEN [sql |-> LenBlock(field, rule_text, table_name, batch_col), parsed |-> TRUE]
    ELSE IF NumericMatch(rule_text)
    THEN [sql |-> NumericBlock(field, rule_text, table_name, batch_col), parsed |-> TRUE]
    ELSE IF SpecialMatch(rule_text)
    THEN [sql |-> SpecialBlock(field, rule_text, table_name, batch_col), parsed |-> TRUE]
    ELSE IF ExistsMatch(rule_text)
    THEN [sql |-> ExistsBlock(field, rule_text, table_name, batch_col), parsed |-> TRUE]
    ELSE [sql |-> FallbackBlock(field, rule_text, table_name, batch_col), parsed |-> FALSE]

\* parse_validation_rule(field, rule_text, table_name, batch_col):
\* (sql_block, fully_parsed); sql_parts holds one block on every path
parse_validation_rule(field, rule_text, table_name, batch_col) ==
    IF rule_text = <<>> THEN [sql |-> <<>>, parsed |-> TRUE]
    ELSE IF OnlyMatch(rule_text)
    THEN [sql |-> Join(<<OnlyBlock(field, rule_text, table_name, batch_col)>>, NL),
          parsed |-> TRUE]
    ELSE IF NumericMatch(rule_text)
    THEN [sql |-> Join(<<NumericBlock(field, rule_text, table_name, batch_col)>>, NL),
          parsed |-> TRUE]
    ELSE IF LenMatch(rule_text)
    THEN [sql |-> Join(<<LenBlock(field, rule_text, table_name, batch_col)>>, NL),
          parsed |-> TRUE]
    ELSE IF SpecialMatch(rule_text)
    THEN [sql |-> Join(<<SpecialBlock(field, rule_text, table_name, batch_col)>>, NL),
          parsed |-> TRUE]
    ELSE IF ExistsMatch(rule_text)
    THEN [sql |-> Join(<<ExistsBlock(field, rule_text, table_name, batch_col)>>, NL),
          parsed |-> TRUE]
    ELSE [sql |-> Join(<<FallbackBlock(field, rule_text, table_name, batch_col)>>, NL),
          parsed |-> FALSE]

(***************************************************************************)
(* generate_validation_sql and generate_transformation_sql                 *)
(***************************************************************************)

HasValidation(r) == r.validation # <<>>

\* the filter of generate_transformation_sql testing the validation text
HasTransformationOnValidation(r) == r.validation # <<>>

HasTransformation(r) == r.transformation # <<>>

\* the (sql, parsed) pairs of the loop over validation_rules, in order
ValidationOutcomes(table_name, batch_col, rs) ==
    LET validation_rules == SelectSeq(rs, HasValidation)
    IN  [k \in 1..Len(validation_rules) |->
            parse_validation_rule(validation_rules[k].field,
                                  validation_rules[k].validation,
                                  table_name, batch_col)]

NonEmptySql(o) == o.sql # <<>>

\* blocks filled through a set of the texts already appended, shared by the
\* rules of the loop
RECURSIVE DedupSql(_, _)
DedupSql(outs, seen) ==
    IF outs = <<>> THEN <<>>
    ELSE IF outs[1].sql = <<>> \/ outs[1].sql \in seen THEN DedupSql(Tail(outs), seen)
    ELSE <<outs[1].sql>> \o DedupSql(Tail(outs), seen \cup {outs[1].sql})

ValidationBlocksDedup(outs) == DedupSql(outs, {})

\* blocks: the sql of every outcome whose sql is not empty
ValidationBlocks(outs) ==
    LET kept == SelectSeq(outs, NonEmptySql)
    IN  [k \in 1..Len(kept) |-> kept[k].sql]

\* the counter incremented under `if parsed` instead of `if not parsed`
UnparsedInverted(outs) == Cardinality({k \in 1..Len(outs) : outs[k].parsed})

\* unparsed: the number of outcomes with parsed = False
Unparsed(outs) == Cardinality({k \in 1..Len(outs) : ~outs[k].parsed})

\* generate_validation_sql(table_name, batch_col, rules), its return value
generate_validation_sql(table_name, batch_col, rs) ==
    LET blocks == ValidationBlocks(ValidationOutcomes(table_name, batch_col, rs))
    IN  IF SelectSeq(rs, HasValidation) = <<>> THEN NO_VALIDATION
        ELSE IF blocks # <<>> THEN Join(blocks, NL) ELSE NO_VALIDATION

\* the f-string block of one transformation rule
TransformationBlock(table_name, batch_col, rule) ==
    L_TODO_TR \o rule.field \o L_COLON \o rule.transformation \o NL
        \o L_C_UPDATE \o table_name \o L_T_NL
        \o L_C_SET_T \o rule.field \o L_TRANSFORMED
        \o L_C_WHERE \o batch_col \o L_BATCH_EQ_SEMI

\* blocks of generate_transformation_sql
TransformationBlocks(table_name, batch_col, rs) ==
    LET transformation_rules == SelectSeq(rs, HasTransformation)
    IN  [k \in 1..Len(transformation_rules) |->
            TransformationBlock(table_name, batch_col, transformation_rules[k])]

\* generate_transformation_sql(table_name, batch_col, rules)
generate_transformation_sql(table_name, batch_col, rs) ==
    IF SelectSeq(rs, HasTransformation) = <<>> THEN NO_TRANSFORMATION
    ELSE Join(TransformationBlocks(table_name, batch_col, rs), NL)

(***************************************************************************)
(* Template rendering and the guardrail scan                               *)
(***************************************************************************)

\* render(template_text, replacements): the placeholders are replaced one
\* key after the other, in the dict's insertion order
RECURSIVE render(_, _)
render(template_text, replacements) ==
    IF replacements = <<>> THEN template_text
    ELSE render(Replace(template_text,
                        <<"{","{">> \o replacements[1][1] \o <<"}","}">>,
                        replacements[1][2]),
                Tail(replacements))

DANGEROUS_KEYWORDS == <<KW_DROP, KW_TRUNCATE, KW_ALTER>>

\* the slice stripped[:100]
MaxWarnLen == 100

\* the scan of one line without the test for the comment marker
LineWarningsNoExemption(line_no, line) ==
    LET stripped == Strip(line)
        hit(k)   == Contains(Upper(stripped), DANGEROUS_KEYWORDS[k])
        found    == SelectSeq(<<1, 2, 3>>, hit)
    IN  [k \in 1..Len(found) |->
            W_LINE \o Decimal(line_no) \o L_COLON
                \o SubSeq(stripped, 1, IF Len(stripped) < MaxWarnLen
                                       THEN Len(stripped) ELSE MaxWarnLen)]

\* the warnings one line adds: one per keyword found in it, none for a
\* line whose stripped text starts with the comment marker
LineWarnings(line_no, line) ==
    LET stripped == Strip(line)
        hit(k)   == Contains(Upper(stripped), DANGEROUS_KEYWORDS[k])
        found    == SelectSeq(<<1, 2, 3>>, hit)
    IN  IF StartsWith(stripped, CMT_MARK) THEN <<>>
        ELSE [k \in 1..Len(found) |->
                W_LINE \o Decimal(line_no) \o L_COLON
                    \o SubSeq(stripped, 1, IF Len(stripped) < MaxWarnLen
                                           THEN Len(stripped) ELSE MaxWarnLen)]

\* warnings of validate_generated_sql(sql_text) for the lines from k on
RECURSIVE ScanFrom(_, _)
ScanFrom(lines, k) ==
    IF k > Len(lines) THEN <<>>
    ELSE LineWarnings(k, lines[k]) \o ScanFrom(lines, k + 1)

\* the list `warnings` of validate_generated_sql(sql_text)
ScanWarnings(sql_text) == ScanFrom(Split(sql_text, "\n"), 1)

\* validate_generated_sql(sql_text), its return value
validate_generated_sql(sql_text) == Len(ScanWarnings(sql_text)) = 0

(***************************************************************************)
(* The run of main()                                                       *)
(***************************************************************************)

VARIABLES
    env,                \* what the run reads: config.json, the mapping CSV,
                        \* the two templates, the date
    pc,                 \* the step of main() that runs next
    table_name,         \* config["table_name"]
    rules,              \* the list parse_mapping_sheet returned
    batch_col,          \* the value detect_batch_column returned
    mandatory_sql,      \* the three generated sections
    validation_sql,
    transformation_sql,
    outcomes,           \* the (sql, parsed) pairs of generate_validation_sql's loop
    spec_sql,           \* the rendered package spec
    body_sql,           \* the rendered package body
    warnings,           \* the list `warnings` of validate_generated_sql
    scan_clean,         \* the value validate_generated_sql returned
    files,              \* the files written so far, in the order written
    stdout,             \* what was printed to stdout (the counts reported)
    stderr,             \* what was printed to stderr
    exit_status         \* -1 while running, 0 after main returned, 1 after sys.exit(1)

\* The other two scripts of the pipeline are programs of their own; their
\* state is declared here because every step of one script leaves the state
\* of the others alone.

\* step 1, fetch_interface_columns.py: the fields of a ColumnsTableParser
VARIABLES
    in_target_table,    \* self.in_target_table
    table_depth,        \* self.table_depth
    in_row,             \* self.in_row
    in_cell,            \* self.in_cell
    row_is_header,      \* self.row_is_header
    current_row,        \* self.current_row
    current_cell,       \* self.current_cell
    headers,            \* self.headers
    rows,               \* self.rows
    event,              \* the event the parser handled last
    fed                 \* how many events the parser has handled

parser_vars == <<in_target_table, table_depth, in_row, in_cell, row_is_header,
                 current_row, current_cell, headers, rows, event, fed>>

\* step 2, create_and_run_table.py: one call of execute_on_atp
VARIABLES
    atp_in,             \* the arguments and what the call finds outside
    atp_pc,             \* the statement of execute_on_atp that runs next
    connection,         \* "none", "open" or "closed"
    cursor,             \* "none", "open" or "closed"
    exists,             \* what table_exists returned, "unknown" before
    pending,            \* the exception on its way out, "none" without one
    executed,           \* the statements passed to cursor.execute, in order
    committed,          \* how many times connection.commit() returned
    atp_stdout,         \* what the call printed to stdout
    atp_stderr,         \* what the call printed to stderr
    atp_exit            \* "running", "returned", "exit 1" or "raised"

atp_vars == <<atp_in, atp_pc, connection, cursor, exists, pending, executed,
              committed, atp_stdout, atp_stderr, atp_exit>>

main_vars == <<env, pc, table_name, rules, batch_col, mandatory_sql, validation_sql,
               transformation_sql, outcomes, spec_sql, body_sql, warnings, scan_clean,
               files, stdout, stderr, exit_status>>

vars == <<main_vars, parser_vars, atp_vars>>

\* the variables main() assigns after parsing
gen_vars == <<mandatory_sql, validation_sql, transformation_sql, outcomes,
              spec_sql, body_sql, warnings, scan_clean>>

\* pkg_name = f"{table_name}_VAL_PKG"
pkg_name == table_name \o VAL_PKG

\* print(..., file=sys.stderr); sys.exit(1)
Fatal(msg) ==
    /\ stderr' = Append(stderr, msg)
    /\ exit_status' = 1
    /\ pc' = "exit"

\* read_config()
ReadConfig ==
    /\ pc = "read_config"
    /\ IF ~env.config.exists
       THEN Fatal("ERROR: config.json not found in workspace root.")
                /\ UNCHANGED table_name
       ELSE IF env.config.mapping_sheet_path = <<>> \/ env.config.table_name = <<>>
       THEN Fatal("ERROR: Missing config keys") /\ UNCHANGED table_name
       ELSE /\ table_name' = env.config.table_name
            /\ pc' = "parse_mapping_sheet"
            /\ UNCHANGED <<stderr, exit_status>>
    /\ UNCHANGED <<parser_vars, atp_vars, env, rules, batch_col, gen_vars, files, stdout>>

\* row.get(col) or "": a column the header lacks gives None
Cell(row, col) == IF col \in env.csv.fieldnames THEN row[col] ELSE <<>>

\* (row.get("Field") or "").strip() is not empty
RowKept(row) == Strip(Cell(row, "Field")) # <<>>

\* the dict of a kept row with the Mandatory cell compared without .strip()
RowRuleNoStrip(row) ==
    FieldRule(Strip(Cell(row, "Field")),
              Upper(Cell(row, "Mandatory")) = YES,
              Strip(Cell(row, "Validations")),
              Strip(Cell(row, "Transformations")))

\* the dict appended for one kept row
RowRule(row) ==
    FieldRule(Strip(Cell(row, "Field")),
              Upper(Strip(Cell(row, "Mandatory"))) = YES,
              Strip(Cell(row, "Validations")),
              Strip(Cell(row, "Transformations")))

\* the list `rules` after the loop over the reader's rows
ParsedRules ==
    LET kept == SelectSeq(env.csv.rows, RowKept)
    IN  [k \in 1..Len(kept) |-> RowRule(kept[k])]

\* parse_mapping_sheet without the test for an empty rule list
ParseMappingSheetNoEmptyCheck ==
    /\ pc = "parse_mapping_sheet"
    /\ IF ~env.csv.exists
       THEN Fatal("ERROR: Mapping sheet not found") /\ UNCHANGED <<rules, stdout>>
       ELSE IF "Field" \notin env.csv.fieldnames
       THEN Fatal("ERROR: CSV must have a 'Field' header.") /\ UNCHANGED <<rules, stdout>>
       ELSE /\ rules' = ParsedRules
            /\ stdout' = Append(stdout, [msg |-> "Parsed field rules", n |-> Len(ParsedRules)])
            /\ pc' = "detect_batch_column"
            /\ UNCHANGED <<stderr, exit_status>>
    /\ UNCHANGED <<parser_vars, atp_vars, env, table_name, batch_col, gen_vars, files>>

\* parse_mapping_sheet(mapping_path)
ParseMappingSheet ==
    /\ pc = "parse_mapping_sheet"
    /\ IF ~env.csv.exists
       THEN Fatal("ERROR: Mapping sheet not found") /\ UNCHANGED <<rules, stdout>>
       ELSE IF "Field" \notin env.csv.fieldnames
       THEN Fatal("ERROR: CSV must have a 'Field' header.") /\ UNCHANGED <<rules, stdout>>
       ELSE IF ParsedRules = <<>>
       THEN Fatal("ERROR: No field rules found in mapping sheet.")
                /\ UNCHANGED <<rules, stdout>>
       ELSE /\ rules' = ParsedRules
            /\ stdout' = Append(stdout, [msg |-> "Parsed field rules", n |-> Len(ParsedRules)])
            /\ pc' = "detect_batch_column"
            /\ UNCHANGED <<stderr, exit_status>>
    /\ UNCHANGED <<parser_vars, atp_vars, env, table_name, batch_col, gen_vars, files>>

\* batch_col = detect_batch_column(rules)
DetectBatchColumn ==
    /\ pc = "detect_batch_column"
    /\ batch_col' = detect_batch_column(rules)
    /\ pc' = "write_rules_json"
    /\ UNCHANGED <<parser_vars, atp_vars, env, table_name, rules, gen_vars, files, stdout, stderr, exit_status>>

\* main() without the dump of the rules record
WriteRulesJsonSkipped ==
    /\ pc = "write_rules_json"
    /\ pc' = "generate_mandatory_sql"
    /\ UNCHANGED <<parser_vars, atp_vars, env, table_name, rules, batch_col, gen_vars, files, stdout, stderr,
                   exit_status>>

\* json.dump of the rules record into output/<table>_mapping_rules.json
WriteRulesJson ==
    /\ pc = "write_rules_json"
    /\ files' = Append(files, [kind |-> "rules_json",
                               content |-> [table_name |-> table_name,
                                            package_name |-> pkg_name,
                                            batch_column |-> batch_col,
                                            rules |-> rules]])
    /\ pc' = "generate_mandatory_sql"
    /\ UNCHANGED <<parser_vars, atp_vars, env, table_name, rules, batch_col, gen_vars, stdout, stderr, exit_status>>

\* mandatory_sql = generate_mandatory_sql(table_name, batch_col, rules)
GenerateMandatory ==
    /\ pc = "generate_mandatory_sql"
    /\ mandatory_sql' = generate_mandatory_sql(table_name, batch_col, rules)
    /\ pc' = "generate_validation_sql"
    /\ UNCHANGED <<parser_vars, atp_vars, env, table_name, rules, batch_col, validation_sql, transformation_sql,
                   outcomes, spec_sql, body_sql, warnings, scan_clean, files, stdout,
                   stderr, exit_status>>

\* validation_sql = generate_validation_sql(table_name, batch_col, rules)
GenerateValidation ==
    /\ pc = "generate_validation_sql"
    /\ outcomes' = ValidationOutcomes(table_name, batch_col, rules)
    /\ validation_sql' = generate_validation_sql(table_name, batch_col, rules)
    /\ stdout' = IF Unparsed(outcomes') # 0
                 THEN Append(stdout, [msg |-> "WARNING: validation rule(s) could not be fully parsed",
                                      n |-> Unparsed(outcomes')])
                 ELSE stdout
    /\ pc' = "generate_transformation_sql"
    /\ UNCHANGED <<parser_vars, atp_vars, env, table_name, rules, batch_col, mandatory_sql, transformation_sql,
                   spec_sql, body_sql, warnings, scan_clean, files, stderr, exit_status>>

\* transformation_sql = generate_transformation_sql(table_name, batch_col, rules)
GenerateTransformation ==
    /\ pc = "generate_transformation_sql"
    /\ transformation_sql' = generate_transformation_sql(table_name, batch_col, rules)
    /\ stdout' = IF SelectSeq(rules, HasTransformation) # <<>>
                 THEN Append(stdout, [msg |-> "INFO: transformation rule(s) emitted as TODO",
                                      n |-> Len(SelectSeq(rules, HasTransformation))])
                 ELSE stdout
    /\ pc' = "render_spec"
    /\ UNCHANGED <<parser_vars, atp_vars, env, table_name, rules, batch_col, mandatory_sql, validation_sql,
                   outcomes, spec_sql, body_sql, warnings, scan_clean, files, stderr,
                   exit_status>>

\* the dict `common`
Common ==
    <<<<K_PKG_NAME, pkg_name>>, <<K_TABLE_NAME, table_name>>, <<K_DATE, env.today>>,
      <<K_BATCH_COLUMN, batch_col>>>>

\* spec_sql = render(read_template("package_spec.tpl.sql"), common)
RenderSpec ==
    /\ pc = "render_spec"
    /\ IF ~env.tpl_spec.exists
       THEN Fatal("ERROR: Template not found: package_spec.tpl.sql") /\ UNCHANGED spec_sql
       ELSE /\ spec_sql' = render(env.tpl_spec.text, Common)
            /\ pc' = "render_body"
            /\ UNCHANGED <<stderr, exit_status>>
    /\ UNCHANGED <<parser_vars, atp_vars, env, table_name, rules, batch_col, mandatory_sql, validation_sql,
                   transformation_sql, outcomes, body_sql, warnings, scan_clean, files,
                   stdout>>

\* the dict `body_replacements`
BodyReplacements ==
    Common \o <<<<K_MANDATORY_CHECKS, mandatory_sql>>,
                <<K_VALIDATION_CHECKS, validation_sql>>,
                <<K_TRANSFORMATION_LOGIC, transformation_sql>>>>

\* body_sql = render(read_template("package_body.tpl.sql"), body_replacements)
RenderBody ==
    /\ pc = "render_body"
    /\ IF ~env.tpl_body.exists
       THEN Fatal("ERROR: Template not found: package_body.tpl.sql") /\ UNCHANGED body_sql
       ELSE /\ body_sql' = render(env.tpl_body.text, BodyReplacements)
            /\ pc' = "validate_generated_sql"
            /\ UNCHANGED <<stderr, exit_status>>
    /\ UNCHANGED <<parser_vars, atp_vars, env, table_name, rules, batch_col, mandatory_sql, validation_sql,
                   transformation_sql, outcomes, spec_sql, warnings, scan_clean, files,
                   stdout>>

\* main() gating on the value validate_generated_sql returns
GuardrailsGating ==
    /\ pc = "validate_generated_sql"
    /\ warnings' = ScanWarnings(body_sql)
    /\ scan_clean' = validate_generated_sql(body_sql)
    /\ IF validate_generated_sql(body_sql)
       THEN pc' = "write_spec" /\ UNCHANGED <<stderr, exit_status>>
       ELSE Fatal("WARNING: Potentially dangerous statements found:")
    /\ UNCHANGED <<parser_vars, atp_vars, env, table_name, rules, batch_col, mandatory_sql, validation_sql,
                   transformation_sql, outcomes, spec_sql, body_sql, files, stdout>>

\* validate_generated_sql(body_sql): the value returned is not used by main
Guardrails ==
    /\ pc = "validate_generated_sql"
    /\ warnings' = ScanWarnings(body_sql)
    /\ scan_clean' = validate_generated_sql(body_sql)
    /\ stderr' = IF warnings' # <<>>
                 THEN Append(stderr, "WARNING: Potentially dangerous statements found:")
                        \o warnings'
                 ELSE stderr
    /\ pc' = "write_spec"
    /\ UNCHANGED <<parser_vars, atp_vars, env, table_name, rules, batch_col, mandatory_sql, validation_sql,
                   transformation_sql, outcomes, spec_sql, body_sql, files, stdout,
                   exit_status>>

\* f.write(spec_sql) into output/<pkg_name>.pks
WriteSpec ==
    /\ pc = "write_spec"
    /\ files' = Append(files, [kind |-> "pks", content |-> spec_sql])
    /\ pc' = "write_body"
    /\ UNCHANGED <<parser_vars, atp_vars, env, table_name, rules, batch_col, gen_vars, stdout, stderr, exit_status>>

\* f.write(body_sql) into output/<pkg_name>.pkb, then the summary; main returns
WriteBody ==
    /\ pc = "write_body"
    /\ files' = Append(files, [kind |-> "pkb", content |-> body_sql])
    /\ pc' = "done"
    /\ exit_status' = 0
    /\ UNCHANGED <<parser_vars, atp_vars, env, table_name, rules, batch_col, gen_vars, stdout, stderr>>

Next ==
    \/ ReadConfig
    \/ ParseMappingSheet
    \/ DetectBatchColumn
    \/ WriteRulesJson
    \/ GenerateMandatory
    \/ GenerateValidation
    \/ GenerateTransformation
    \/ RenderSpec
    \/ RenderBody
    \/ Guardrails
    \/ WriteSpec
    \/ WriteBody

\* the state main() starts in, for one of the given inputs
MainInit(inputs) ==
    /\ env \in inputs
    /\ pc = "read_config"
    /\ table_name = <<>>
    /\ rules = <<>>
    /\ batch_col = <<>>
    /\ mandatory_sql = <<>>
    /\ validation_sql = <<>>
    /\ transformation_sql = <<>>
    /\ outcomes = <<>>
    /\ spec_sql = <<>>
    /\ body_sql = <<>>
    /\ warnings = <<>>
    /\ scan_clean = TRUE
    /\ files = <<>>
    /\ stdout = <<>>
    /\ stderr = <<>>
    /\ exit_status = -1

(***************************************************************************)
(* fetch_interface_columns.py: ColumnsTableParser                          *)
(*                                                                         *)
(* HTMLParser.feed calls the handlers below, one call per piece of markup. *)
(* The parser is built with super().__init__(), so convert_charrefs is on  *)
(* and character references arrive through handle_data; handle_entityref   *)
(* and handle_charref are never called.                                    *)
(***************************************************************************)

\* how many events one run feeds to the parser
MaxEvents == 9

\* the tags the handlers tell apart, and one they do not
Tags == {"table", "tr", "th", "td", "div"}

\* ad.get("summary"): the attribute's value, or None without the attribute
NONE == "None"

Summaries == {"Columns", "columns", NONE}

\* the texts handle_data receives
DataTexts == {<<"A">>, <<" ">>}

NoEvent == [kind |-> "none", tag |-> "", summary |-> NONE, data |-> <<>>]

StartTag(tag, summary) == [kind |-> "start", tag |-> tag, summary |-> summary, data |-> <<>>]

EndTag(tag) == [kind |-> "end", tag |-> tag, summary |-> NONE, data |-> <<>>]

Data(data) == [kind |-> "data", tag |-> "", summary |-> NONE, data |-> data]

\* ColumnsTableParser.__init__
ParserInit ==
    /\ in_target_table = FALSE
    /\ table_depth = 0
    /\ in_row = FALSE
    /\ in_cell = FALSE
    /\ row_is_header = FALSE
    /\ current_row = <<>>
    /\ current_cell = <<>>
    /\ headers = <<>>
    /\ rows = <<>>
    /\ event = NoEvent
    /\ fed = 0

\* one more event handled
Fed(e) ==
    /\ fed < MaxEvents
    /\ fed' = fed + 1
    /\ event' = e
    /\ UNCHANGED <<main_vars, atp_vars>>

\* [c.strip() for c in self.current_row]
StripAll(row) == [i \in 1..Len(row) |-> Strip(row[i])]

\* ColumnsTableParser.handle_starttag
handle_starttag ==
    \E tag \in Tags, summary \in Summaries :
        /\ Fed(StartTag(tag, summary))
        /\ IF tag = "table" /\ summary = "Columns"
           THEN /\ in_target_table' = TRUE
                /\ table_depth' = 1
                /\ UNCHANGED <<in_row, in_cell, row_is_header, current_row, current_cell>>
           ELSE IF ~in_target_table
           THEN UNCHANGED <<in_target_table, table_depth, in_row, in_cell, row_is_header,
                            current_row, current_cell>>
           ELSE IF tag = "table"
           THEN /\ table_depth' = table_depth + 1
                /\ UNCHANGED <<in_target_table, in_row, in_cell, row_is_header,
                               current_row, current_cell>>
           ELSE IF tag = "tr"
           THEN /\ in_row' = TRUE
                /\ current_row' = <<>>
                /\ row_is_header' = FALSE
                /\ UNCHANGED <<in_target_table, table_depth, in_cell, current_cell>>
           ELSE IF tag = "th"
           THEN /\ in_cell' = TRUE
                /\ row_is_header' = TRUE
                /\ current_cell' = <<>>
                /\ UNCHANGED <<in_target_table, table_depth, in_row, current_row>>
           ELSE IF tag = "td"
           THEN /\ in_cell' = TRUE
                /\ current_cell' = <<>>
                /\ UNCHANGED <<in_target_table, table_depth, in_row, row_is_header,
                               current_row>>
           ELSE UNCHANGED <<in_target_table, table_depth, in_row, in_cell, row_is_header,
                            current_row, current_cell>>
        /\ UNCHANGED <<headers, rows>>

\* handle_endtag without its first two lines
handle_endtag_NoEarlyReturn ==
    \E tag \in Tags :
        /\ Fed(EndTag(tag))
        /\ IF tag = "table"
           THEN /\ table_depth' = table_depth - 1
                /\ in_target_table' = IF table_depth - 1 = 0 THEN FALSE ELSE in_target_table
                /\ UNCHANGED <<in_row, in_cell, current_row, headers, rows>>
           ELSE IF tag = "tr" /\ in_row
           THEN /\ in_row' = FALSE
                /\ IF current_row # <<>>
                   THEN IF row_is_header
                        THEN headers' = StripAll(current_row) /\ UNCHANGED rows
                        ELSE rows' = Append(rows, StripAll(current_row)) /\ UNCHANGED headers
                   ELSE UNCHANGED <<headers, rows>>
                /\ UNCHANGED <<in_target_table, table_depth, in_cell, current_row>>
           ELSE IF tag \in {"th", "td"} /\ in_cell
           THEN /\ current_row' = Append(current_row, current_cell)
                /\ in_cell' = FALSE
                /\ UNCHANGED <<in_target_table, table_depth, in_row, headers, rows>>
           ELSE UNCHANGED <<in_target_table, table_depth, in_row, in_cell, current_row,
                            headers, rows>>
        /\ UNCHANGED <<row_is_header, current_cell>>

\* ColumnsTableParser.handle_endtag
handle_endtag ==
    \E tag \in Tags :
        /\ Fed(EndTag(tag))
        /\ IF ~in_target_table
           THEN UNCHANGED <<in_target_table, table_depth, in_row, in_cell, current_row,
                            headers, rows>>
           ELSE IF tag = "table"
           THEN /\ table_depth' = table_depth - 1
                /\ in_target_table' = IF table_depth - 1 = 0 THEN FALSE ELSE in_target_table
                /\ UNCHANGED <<in_row, in_cell, current_row, headers, rows>>
           ELSE IF tag = "tr" /\ in_row
           THEN /\ in_row' = FALSE
                /\ IF current_row # <<>>
                   THEN IF row_is_header
                        THEN headers' = StripAll(current_row) /\ UNCHANGED rows
                        ELSE rows' = Append(rows, StripAll(current_row)) /\ UNCHANGED headers
                   ELSE UNCHANGED <<headers, rows>>
                /\ UNCHANGED <<in_target_table, table_depth, in_cell, current_row>>
           ELSE IF tag \in {"th", "td"} /\ in_cell
           THEN /\ current_row' = Append(current_row, current_cell)
                /\ in_cell' = FALSE
                /\ UNCHANGED <<in_target_table, table_depth, in_row, headers, rows>>
           ELSE UNCHANGED <<in_target_table, table_depth, in_row, in_cell, current_row,
                            headers, rows>>
        /\ UNCHANGED <<row_is_header, current_cell>>

\* ColumnsTableParser.handle_data
handle_data ==
    \E data \in DataTexts :
        /\ Fed(Data(data))
        /\ current_cell' = IF in_cell THEN current_cell \o data ELSE current_cell
        /\ UNCHANGED <<in_target_table, table_depth, in_row, in_cell, row_is_header,
                       current_row, headers, rows>>

\* parser.feed(html): the handlers, called in the order of the markup
ParserNext ==
    \/ handle_starttag
    \/ handle_endtag
    \/ handle_data

(***************************************************************************)
(* create_and_run_table.py: execute_on_atp                                 *)
(*                                                                         *)
(* One action per statement that calls out of the function.  A call of the *)
(* driver returns or raises, and which of the two is the database's        *)
(* choice; connection.cursor() and the two close() calls build or drop     *)
(* local objects and are taken to return.                                  *)
(***************************************************************************)

\* 'SELECT COUNT(*) FROM user_tables WHERE table_name = :1'
Q_TABLE_EXISTS ==
    <<"S","E","L","E","C","T"," ","C","O","U","N","T","(","*",")"," ","F","R","O","M"," ","u","s",
      "e","r","_","t","a","b","l","e","s"," ","W","H","E","R","E"," ","t","a","b","l","e","_","n",
      "a","m","e"," ","="," ",":","1">>

\* str.rstrip(): without the trailing whitespace
RStrip(s) ==
    LET keep == {i \in 1..Len(s) : s[i] \notin WS}
    IN  IF keep = {} THEN <<>> ELSE SubSeq(s, 1, Max(keep))

\* str.rstrip(";"): without the trailing semicolons
RStripSemi(s) ==
    LET keep == {i \in 1..Len(s) : s[i] # ";"}
    IN  IF keep = {} THEN <<>> ELSE SubSeq(s, 1, Max(keep))

\* exec_sql = sql.rstrip().rstrip(";")
exec_sql == RStripSemi(RStrip(atp_in.sql))

\* cursor.execute(statement, binds)
Statement(sql, binds) == [sql |-> sql, binds |-> binds]

\* the state execute_on_atp is called in, for one of the given calls
AtpInit(calls) ==
    /\ atp_in \in calls
    /\ atp_pc = "prepare_wallet"
    /\ connection = "none"
    /\ cursor = "none"
    /\ exists = "unknown"
    /\ pending = "none"
    /\ executed = <<>>
    /\ committed = 0
    /\ atp_stdout = <<>>
    /\ atp_stderr = <<>>
    /\ atp_exit = "running"

\* prepare_wallet and the lines up to the connection attempt
PrepareWallet ==
    /\ atp_pc = "prepare_wallet"
    /\ IF atp_in.wallet = "missing"
       THEN /\ atp_stderr' = Append(atp_stderr, "ERROR: Wallet path not found")
            /\ atp_exit' = "exit 1"
            /\ atp_pc' = "done"
            /\ UNCHANGED atp_stdout
       ELSE /\ atp_stdout' = atp_stdout
                \o <<IF atp_in.wallet = "dir" THEN "Using wallet directory" ELSE "Wallet extracted",
                     "Connecting to ATP service">>
                \o (IF atp_in.tns THEN <<"Resolved from tnsnames.ora">> ELSE <<>>)
            /\ atp_pc' = "connect"
            /\ UNCHANGED <<atp_stderr, atp_exit>>
    /\ UNCHANGED <<atp_in, connection, cursor, exists, pending, executed, committed>>
    /\ UNCHANGED <<main_vars, parser_vars>>

\* connection = oracledb.connect(**connect_kwargs), and its except clause
Connect ==
    /\ atp_pc = "connect"
    /\ \E outcome \in {"connected", "Error"} :
        IF outcome = "Error"
        THEN /\ atp_stderr' = atp_stderr \o <<"ERROR: ATP connection failed", "HINT">>
             /\ atp_exit' = "exit 1"
             /\ atp_pc' = "done"
             /\ UNCHANGED <<connection, atp_stdout>>
        ELSE /\ connection' = "open"
             /\ atp_stdout' = Append(atp_stdout, "Connected successfully.")
             /\ atp_pc' = "cursor"
             /\ UNCHANGED <<atp_stderr, atp_exit>>
    /\ UNCHANGED <<atp_in, cursor, exists, pending, executed, committed>>
    /\ UNCHANGED <<main_vars, parser_vars>>

\* cursor = connection.cursor()
OpenCursor ==
    /\ atp_pc = "cursor"
    /\ cursor' = "open"
    /\ atp_pc' = "table_exists"
    /\ UNCHANGED <<atp_in, connection, exists, pending, executed, committed, atp_stdout,
                   atp_stderr, atp_exit>>
    /\ UNCHANGED <<main_vars, parser_vars>>

\* the exception classes of the driver that matter to the except clause:
\* oracledb.DatabaseError, and oracledb.InterfaceError, which is not one
Raised == {"DatabaseError", "InterfaceError"}

\* where an exception raised in the try block goes
Raise(exc) ==
    /\ pending' = exc
    /\ atp_pc' = IF exc = "DatabaseError" THEN "except" ELSE "finally"

\* if table_exists(cursor, table_name): ... return
TableExists ==
    /\ atp_pc = "table_exists"
    /\ executed' = Append(executed, Statement(Q_TABLE_EXISTS, <<Upper(atp_in.table_name)>>))
    /\ \E outcome \in {"count 0", "count 1"} \cup Raised :
        IF outcome \in Raised
        THEN Raise(outcome) /\ UNCHANGED <<exists, atp_stdout>>
        ELSE IF outcome = "count 1"
        THEN /\ exists' = "TRUE"
             /\ atp_stdout' = Append(atp_stdout, "SKIP: Table already exists. No action taken.")
             /\ pending' = "return"
             /\ atp_pc' = "finally"
        ELSE /\ exists' = "FALSE"
             /\ atp_pc' = "create"
             /\ UNCHANGED <<pending, atp_stdout>>
    /\ UNCHANGED <<atp_in, connection, cursor, committed, atp_stderr, atp_exit>>
    /\ UNCHANGED <<main_vars, parser_vars>>

\* cursor.execute(exec_sql)
Create ==
    /\ atp_pc = "create"
    /\ executed' = Append(executed, Statement(exec_sql, <<>>))
    /\ \E outcome \in {"done"} \cup Raised :
        IF outcome \in Raised
        THEN Raise(outcome)
        ELSE atp_pc' = "commit" /\ UNCHANGED pending
    /\ UNCHANGED <<atp_in, connection, cursor, exists, committed, atp_stdout, atp_stderr,
                   atp_exit>>
    /\ UNCHANGED <<main_vars, parser_vars>>

\* connection.commit() and the SUCCESS line
Commit ==
    /\ atp_pc = "commit"
    /\ \E outcome \in {"done"} \cup Raised :
        IF outcome \in Raised
        THEN Raise(outcome) /\ UNCHANGED <<committed, atp_stdout>>
        ELSE /\ committed' = committed + 1
             /\ atp_stdout' = Append(atp_stdout, "SUCCESS: Table created.")
             /\ atp_pc' = "finally"
             /\ UNCHANGED pending
    /\ UNCHANGED <<atp_in, connection, cursor, exists, executed, atp_stderr, atp_exit>>
    /\ UNCHANGED <<main_vars, parser_vars>>

\* except oracledb.DatabaseError as e: print(...); sys.exit(1)
Except ==
    /\ atp_pc = "except"
    /\ atp_stderr' = Append(atp_stderr, "ERROR executing SQL")
    /\ pending' = "SystemExit"
    /\ atp_pc' = "finally"
    /\ UNCHANGED <<atp_in, connection, cursor, exists, executed, committed, atp_stdout,
                   atp_exit>>
    /\ UNCHANGED <<main_vars, parser_vars>>

\* how the call ends once the finally clause is through
Outcome(exc) ==
    IF exc \in {"none", "return"} THEN "returned"
    ELSE IF exc = "SystemExit" THEN "exit 1"
    ELSE "raised"

\* the two close() calls written after the try statement, not in a finally
FinallyAfterTry ==
    /\ atp_pc = "finally"
    /\ IF pending = "none"
       THEN /\ cursor' = "closed"
            /\ connection' = "closed"
            /\ atp_stdout' = Append(atp_stdout, "Connection closed.")
       ELSE UNCHANGED <<cursor, connection, atp_stdout>>
    /\ atp_exit' = Outcome(pending)
    /\ atp_pc' = "done"
    /\ UNCHANGED <<atp_in, exists, pending, executed, committed, atp_stderr>>
    /\ UNCHANGED <<main_vars, parser_vars>>

\* finally: cursor.close(); connection.close(); print("Connection closed.")
Finally ==
    /\ atp_pc = "finally"
    /\ cursor' = "closed"
    /\ connection' = "closed"
    /\ atp_stdout' = Append(atp_stdout, "Connection closed.")
    /\ atp_exit' = Outcome(pending)
    /\ atp_pc' = "done"
    /\ UNCHANGED <<atp_in, exists, pending, executed, committed, atp_stderr>>
    /\ UNCHANGED <<main_vars, parser_vars>>

\* execute_on_atp, statement by statement
AtpNext ==
    \/ PrepareWallet
    \/ Connect
    \/ OpenCursor
    \/ TableExists
    \/ Create
    \/ Commit
    \/ Except
    \/ Finally

\* no call of execute_on_atp: the arguments of a script that is not run
NoCall == [sql |-> <<>>, table_name |-> <<>>, wallet |-> "missing", tns |-> FALSE]

\* no run of main(): the environment of a script that is not run
NoRun == <<>>

\* the start of a run of generate_validation_package.py
InitWith(inputs) == MainInit(inputs) /\ ParserInit /\ AtpInit({NoCall})

(***************************************************************************)
(* Texts of the input families                                             *)
(***************************************************************************)

\* 'STG'
T_NAME ==
    <<"S","T","G">>

\* 'm.csv'
M_PATH ==
    <<"m",".","c","s","v">>

\* '04-NOV-2026'
TODAY ==
    <<"0","4","-","N","O","V","-","2","0","2","6">>

\* 'PACKAGE {{PKG_NAME}} -- {{TABLE_NAME}} {{DATE}} {{BATCH_COLUMN}}\n'
TPL_SPEC ==
    <<"P","A","C","K","A","G","E"," ","{","{","P","K","G","_","N","A","M","E","}","}"," ","-","-",
      " ","{","{","T","A","B","L","E","_","N","A","M","E","}","}"," ","{","{","D","A","T","E","}",
      "}"," ","{","{","B","A","T","C","H","_","C","O","L","U","M","N","}","}","\n">>

\* 'BEGIN\n{{MANDATORY_CHECKS}}\n{{VALIDATION_CHECKS}}\n{{TRANSFORMATION_LOGIC}}\nEND {{PKG_NAME}};\n'
TPL_BODY ==
    <<"B","E","G","I","N","\n","{","{","M","A","N","D","A","T","O","R","Y","_","C","H","E","C","K",
      "S","}","}","\n","{","{","V","A","L","I","D","A","T","I","O","N","_","C","H","E","C","K","S",
      "}","}","\n","{","{","T","R","A","N","S","F","O","R","M","A","T","I","O","N","_","L","O","G",
      "I","C","}","}","\n","E","N","D"," ","{","{","P","K","G","_","N","A","M","E","}","}",";","\n">>

\* 'CUSTOMER_ID'
F_CUSTOMER_ID ==
    <<"C","U","S","T","O","M","E","R","_","I","D">>

\* 'STATUS'
F_STATUS ==
    <<"S","T","A","T","U","S">>

\* 'NOTES'
F_NOTES ==
    <<"N","O","T","E","S">>

\* '  '
F_BLANK ==
    <<" "," ">>

\* 'Load_Batch'
F_LOAD_BATCH ==
    <<"L","o","a","d","_","B","a","t","c","h">>

\* 'CODE'
F_CODE ==
    <<"C","O","D","E">>

\* 'BATCH_ID'
F_BATCH_ID_UC ==
    <<"B","A","T","C","H","_","I","D">>

\* 'batch_id'
F_BATCH_ID_LC ==
    <<"b","a","t","c","h","_","i","d">>

\* 'ID'
F_ID ==
    <<"I","D">>

\* "O'X"
F_QUOTED ==
    <<"O","'","X">>

\* 'AMT'
F_AMT ==
    <<"A","M","T">>

\* 'YES'
C_YES ==
    <<"Y","E","S">>

\* 'NO'
C_NO ==
    <<"N","O">>

\* ' yes '
C_YES_PADDED ==
    <<" ","y","e","s"," ">>

\* 'Y'
C_Y ==
    <<"Y">>

\* "should only be 'A' or 'B'"
V_ENUM ==
    <<"s","h","o","u","l","d"," ","o","n","l","y"," ","b","e"," ","'","A","'"," ","o","r"," ","'",
      "B","'">>

\* "MUST ONLY BE 'x','y'"
V_ENUM_UC ==
    <<"M","U","S","T"," ","O","N","L","Y"," ","B","E"," ","'","x","'",",","'","y","'">>

\* 'must be numeric'
V_NUMERIC ==
    <<"m","u","s","t"," ","b","e"," ","n","u","m","e","r","i","c">>

\* 'max length is 10'
V_LENGTH ==
    <<"m","a","x"," ","l","e","n","g","t","h"," ","i","s"," ","1","0">>

\* 'cannot contain special characters'
V_SPECIAL ==
    <<"c","a","n","n","o","t"," ","c","o","n","t","a","i","n"," ","s","p","e","c","i","a","l"," ",
      "c","h","a","r","a","c","t","e","r","s">>

\* 'must exist in REF.CODE'
V_EXISTS ==
    <<"m","u","s","t"," ","e","x","i","s","t"," ","i","n"," ","R","E","F",".","C","O","D","E">>

\* 'must exist in CUSTOMERS.NAME'
V_EXISTS_CUSTOMERS ==
    <<"m","u","s","t"," ","e","x","i","s","t"," ","i","n"," ","C","U","S","T","O","M","E","R","S",
      ".","N","A","M","E">>

\* 'if not null'
V_IF_NOT_NULL ==
    <<"i","f"," ","n","o","t"," ","n","u","l","l">>

\* 'IF given, NOT NULL'
V_IF_GIVEN ==
    <<"I","F"," ","g","i","v","e","n",","," ","N","O","T"," ","N","U","L","L">>

\* 'see wiki'
V_FREE ==
    <<"s","e","e"," ","w","i","k","i">>

\* 'ask\nDBA'
V_TWO_LINES ==
    <<"a","s","k","\n","D","B","A">>

\* 'see wiki\nDROP TABLE x'
V_FREE_DROP ==
    <<"s","e","e"," ","w","i","k","i","\n","D","R","O","P"," ","T","A","B","L","E"," ","x">>

\* 'trim whitespace'
X_TRIM ==
    <<"t","r","i","m"," ","w","h","i","t","e","s","p","a","c","e">>

\* 'trim\nupper case'
X_TWO_LINES ==
    <<"t","r","i","m","\n","u","p","p","e","r"," ","c","a","s","e">>

\* '-- DROP TABLE x'
LN_COMMENTED_DROP ==
    <<"-","-"," ","D","R","O","P"," ","T","A","B","L","E"," ","x">>

\* 'DROP TABLE x'
LN_DROP ==
    <<"D","R","O","P"," ","T","A","B","L","E"," ","x">>

\* '  drop table x'
LN_DROP_LC ==
    <<" "," ","d","r","o","p"," ","t","a","b","l","e"," ","x">>

\* 'SELECT 1'
LN_SELECT ==
    <<"S","E","L","E","C","T"," ","1">>

\* 'ALTER TABLE x DROP COLUMN y'
LN_ALTER_DROP ==
    <<"A","L","T","E","R"," ","T","A","B","L","E"," ","x"," ","D","R","O","P"," ","C","O","L","U",
      "M","N"," ","y">>

\* 'x := 1; DROP'
LN_DROP_LAST ==
    <<"x"," ",":","="," ","1",";"," ","D","R","O","P">>

\* '   -- note'
LN_COMMENT ==
    <<" "," "," ","-","-"," ","n","o","t","e">>

(***************************************************************************)
(* Inputs: the files a run reads                                           *)
(***************************************************************************)

\* the most rows a mapping CSV of the input families holds
\* the longest field name of the names made of quotes and letters
MaxNameLen == 4

MaxRows == 2

\* the most phrases a validation text of RuleInputs is made of
MaxPhrases == 2

\* the most lines a body template of ScanInputs holds
MaxLines == 2

\* all sequences over S of length 0..n
SeqsUpTo(S, n) == UNION {[1..k -> S] : k \in 0..n}

\* all sequences over S of length 1..n
SeqsFrom1(S, n) == UNION {[1..k -> S] : k \in 1..n}

Row(f, m, v, t) == [Field |-> f, Mandatory |-> m, Validations |-> v, Transformations |-> t]

AllColumns == {"Field", "Mandatory", "Validations", "Transformations"}

ConfigOk == [exists |-> TRUE, table_name |-> T_NAME, mapping_sheet_path |-> M_PATH]

File(text) == [exists |-> TRUE, text |-> text]

NoFile == [exists |-> FALSE, text |-> <<>>]

Csv(fieldnames, rws) == [exists |-> TRUE, fieldnames |-> fieldnames, rows |-> rws]

NoCsv == [exists |-> FALSE, fieldnames |-> {}, rows |-> <<>>]

Env(config, csv, tpl_spec, tpl_body) ==
    [config |-> config, csv |-> csv, tpl_spec |-> tpl_spec, tpl_body |-> tpl_body,
     today |-> TODAY]

\* the three rows of the end-to-end example
ExampleRows ==
    <<Row(F_CUSTOMER_ID, C_YES, <<>>, <<>>),
      Row(F_STATUS, C_NO, V_ENUM, <<>>),
      Row(F_NOTES, C_NO, V_EXISTS_CUSTOMERS, X_TRIM)>>

MainRows ==
    {ExampleRows[1], ExampleRows[2], ExampleRows[3],
     Row(F_BLANK, C_YES, V_NUMERIC, <<>>),
     Row(F_LOAD_BATCH, C_YES_PADDED, <<>>, <<>>),
     Row(F_CODE, C_Y, V_FREE_DROP, <<>>)}

\* runs of every kind: a missing or incomplete config.json, a missing CSV, a
\* header without Field or without Mandatory, no usable row, missing
\* templates, and complete runs
MainInputs ==
    {Env([exists |-> FALSE, table_name |-> <<>>, mapping_sheet_path |-> <<>>],
         NoCsv, File(TPL_SPEC), File(TPL_BODY)),
     Env([exists |-> TRUE, table_name |-> <<>>, mapping_sheet_path |-> M_PATH],
         NoCsv, File(TPL_SPEC), File(TPL_BODY)),
     Env(ConfigOk, NoCsv, File(TPL_SPEC), File(TPL_BODY)),
     Env(ConfigOk, Csv({}, <<>>), File(TPL_SPEC), File(TPL_BODY)),
     Env(ConfigOk, Csv(AllColumns, ExampleRows), File(TPL_SPEC), File(TPL_BODY))}
    \cup {Env(ConfigOk, Csv(AllColumns \ {"Field"}, rws), File(TPL_SPEC), File(TPL_BODY)) :
            rws \in SeqsUpTo(MainRows, 1)}
    \cup {Env(ConfigOk, Csv(AllColumns \ {"Mandatory"}, rws), File(TPL_SPEC), File(TPL_BODY)) :
            rws \in SeqsUpTo(MainRows, 1)}
    \cup {Env(ConfigOk, Csv(AllColumns, rws), ts, tb) :
            rws \in SeqsUpTo(MainRows, MaxRows),
            ts \in {NoFile, File(TPL_SPEC)},
            tb \in {NoFile, File(TPL_BODY)}}

MandatoryRows ==
    {Row(f, m, <<>>, <<>>) :
        f \in {F_BATCH_ID_UC, F_BATCH_ID_LC, F_ID, F_QUOTED}, m \in {C_YES, C_NO}}

\* mapping sheets that differ in field names and Mandatory cells
MandatoryInputs ==
    {Env(ConfigOk, Csv(AllColumns, rws), File(TPL_SPEC), File(TPL_BODY)) :
        rws \in SeqsUpTo(MandatoryRows, MaxRows)}

Phrases ==
    {V_ENUM, V_ENUM_UC, V_NUMERIC, V_LENGTH, V_SPECIAL, V_EXISTS, V_IF_NOT_NULL,
     V_IF_GIVEN, V_FREE, V_TWO_LINES}

\* mapping sheets of one row whose validation text is made of 1..MaxPhrases
\* phrases, joined by a space
RuleInputs ==
    {Env(ConfigOk, Csv(AllColumns, <<Row(F_AMT, C_NO, Join(ps, <<" ">>), <<>>)>>),
         File(TPL_SPEC), File(TPL_BODY)) :
        ps \in SeqsFrom1(Phrases, MaxPhrases)}

TemplateLines ==
    {LN_COMMENTED_DROP, LN_DROP, LN_DROP_LC, LN_SELECT, LN_ALTER_DROP, LN_DROP_LAST,
     LN_COMMENT}

\* body templates made of 1..MaxLines lines
ScanInputs ==
    {Env(ConfigOk, Csv(AllColumns, <<Row(F_ID, C_NO, <<>>, <<>>)>>),
         File(TPL_SPEC), File(Join(ls, NL))) :
        ls \in SeqsFrom1(TemplateLines, MaxLines)}

TransformRows ==
    {Row(f, C_NO, <<>>, x) : f \in {F_STATUS, F_NOTES}, x \in {<<>>, X_TRIM, X_TWO_LINES}}

\* mapping sheets that differ in the Transformations cells
TransformInputs ==
    {Env(ConfigOk, Csv(AllColumns, rws), File(TPL_SPEC), File(TPL_BODY)) :
        rws \in SeqsFrom1(TransformRows, MaxRows)}

\* field names made of single quotes and the letter a
QuotedNames == SeqsFrom1({"'", "a"}, MaxNameLen)

\* mapping sheets of one numeric rule whose field name holds quotes
EscapeInputs ==
    {Env(ConfigOk, Csv(AllColumns, <<Row(f, C_NO, V_NUMERIC, <<>>)>>),
         File(TPL_SPEC), File(TPL_BODY)) :
        f \in QuotedNames}

Init == InitWith(MainInputs)

InitMandatory == InitWith(MandatoryInputs)

InitRule == InitWith(RuleInputs)

InitScan == InitWith(ScanInputs)

InitTransform == InitWith(TransformInputs)

\* runs on the mapping sheets of TransformInputs
SpecTransform == InitTransform /\ [][Next]_vars

InitEscape == InitWith(EscapeInputs)

\* runs on the mapping sheets of EscapeInputs
SpecEscape == InitEscape /\ [][Next]_vars

\* a run of main() on any of the main inputs
Spec == Init /\ [][Next]_vars

\* runs on the mapping sheets of MandatoryInputs
SpecMandatory == InitMandatory /\ [][Next]_vars

\* runs on the mapping sheets of RuleInputs
SpecRule == InitRule /\ [][Next]_vars

\* runs on the body templates of ScanInputs
SpecScan == InitScan /\ [][Next]_vars

\* 'CREATE TABLE '
L_CREATE_TABLE ==
    <<"C","R","E","A","T","E"," ","T","A","B","L","E"," ">>

\* ' (\n'
L_OPEN_BODY ==
    <<" ","(","\n">>

\* '\n);\n'
L_CLOSE_BODY ==
    <<"\n",")",";","\n">>

\* 'stg'
T_NAME_LC ==
    <<"s","t","g">>

\* '    A NUMBER'
B_ONE ==
    <<" "," "," "," ","A"," ","N","U","M","B","E","R">>

\* '    A NUMBER,\n    B DATE'
B_TWO ==
    <<" "," "," "," ","A"," ","N","U","M","B","E","R",",","\n"," "," "," "," ","B"," ","D","A","T",
      "E">>

\* the statement generate_create_sql returns for a table and its column lines
CreateSql(name, body) == L_CREATE_TABLE \o name \o L_OPEN_BODY \o body \o L_CLOSE_BODY

\* calls of execute_on_atp: the statement main() generated for the table, a
\* wallet that is a directory, a zip file or missing, and a tnsnames.ora
\* that resolves the service alias or does not
AtpInputs ==
    {[sql |-> CreateSql(name, body), table_name |-> name, wallet |-> w, tns |-> t] :
        name \in {T_NAME, T_NAME_LC}, body \in {B_ONE, B_TWO},
        w \in {"dir", "zip", "missing"}, t \in BOOLEAN}

\* a call of execute_on_atp
InitAtp == MainInit({NoRun}) /\ ParserInit /\ AtpInit(AtpInputs)

\* one call of execute_on_atp against a database that answers as it likes
SpecAtp == InitAtp /\ [][AtpNext]_vars

\* a new ColumnsTableParser, before parser.feed(html)
InitParser == MainInit({NoRun}) /\ ParserInit /\ AtpInit({NoCall})

\* every sequence of at most MaxEvents events fed to one parser
SpecParser == InitParser /\ [][ParserNext]_vars

(***************************************************************************)
(* Properties                                                              *)
(***************************************************************************)

\* the steps of main() after generate_mandatory_sql returned
AfterMandatory ==
    {"generate_validation_sql", "generate_transformation_sql", "render_spec", "render_body",
     "validate_generated_sql", "write_spec", "write_body", "done"}

\* the steps of main() after generate_validation_sql returned
AfterValidation == AfterMandatory \ {"generate_validation_sql"}

\* the steps of main() after validate_generated_sql returned
AfterScan == {"write_spec", "write_body", "done"}

Lines(text) == Split(text, "\n")

IsComment(line) == StartsWith(Strip(line), CMT_MARK)

IsBlank(line) == Strip(line) = <<>>

HasQuote(s) == \E i \in 1..Len(s) : s[i] = "'"

\* the live checks of a section: the lines that open an UPDATE statement
LiveChecks(sql) ==
    Cardinality({k \in 1..Len(Lines(sql)) :
                    StartsWith(Strip(Lines(sql)[k]), <<"U","P","D","A","T","E"," ">>)})

MandatoryCount == Cardinality({i \in 1..Len(rules) : rules[i].mandatory})

\* C1 as stated: the number of live mandatory checks is the number of
\* mandatory rules, minus 1 if the rule that names the batch column is
\* mandatory.
C1_LiveCountMinusOne ==
    pc \in AfterMandatory =>
        LiveChecks(mandatory_sql) =
            MandatoryCount
            - (IF \E i \in 1..Len(rules) : rules[i].mandatory /\ rules[i].field = batch_col
               THEN 1 ELSE 0)

\* C1 amended: the number of live mandatory checks is the number of
\* mandatory rules whose field name differs from the batch column when both
\* are upper-cased; every duplicate and every case variant of the batch
\* column is left out.
C1_LiveCountSkipsEveryBatchRow ==
    pc \in AfterMandatory =>
        LiveChecks(mandatory_sql) =
            Cardinality({i \in 1..Len(rules) :
                            rules[i].mandatory /\ Upper(rules[i].field) # Upper(batch_col)})

\* C1 witness: two rows name the batch column in different letter case, both
\* mandatory, beside no other mandatory row: no live check is generated.
C1_Witness ==
    /\ pc \in AfterMandatory
    /\ Len(rules) = 2
    /\ rules[1].mandatory /\ rules[2].mandatory
    /\ rules[1].field # rules[2].field
    /\ Upper(rules[1].field) = Upper(batch_col)
    /\ Upper(rules[2].field) = Upper(batch_col)
    /\ LiveChecks(mandatory_sql) = 0

\* does recognizer k (1..5, 6 the fallback) match the text
Recognizes(k, text) ==
    CASE k = 1 -> OnlyMatch(text)
      [] k = 2 -> NumericMatch(text)
      [] k = 3 -> LenMatch(text)
      [] k = 4 -> SpecialMatch(text)
      [] k = 5 -> ExistsMatch(text)
      [] OTHER -> TRUE

\* the fragment of recognizer k
FragmentOf(k, field, text) ==
    CASE k = 1 -> OnlyBlock(field, text, table_name, batch_col)
      [] k = 2 -> NumericBlock(field, text, table_name, batch_col)
      [] k = 3 -> LenBlock(field, text, table_name, batch_col)
      [] k = 4 -> SpecialBlock(field, text, table_name, batch_col)
      [] k = 5 -> ExistsBlock(field, text, table_name, batch_col)
      [] OTHER -> FallbackBlock(field, text, table_name, batch_col)

LowestRecognizer(text) == Min({k \in 1..6 : Recognizes(k, text)})

\* the rules generate_validation_sql compiles, in source order
ValidationRules == SelectSeq(rules, HasValidation)

\* C2 as stated: a validation text that matches none of the five patterns
\* gives parsed = false and a fragment whose non-blank lines all begin,
\* after trimming, with the comment marker.
C2_FallbackFullyCommented ==
    pc \in AfterValidation =>
        \A k \in 1..Len(outcomes) :
            LowestRecognizer(ValidationRules[k].validation) = 6 =>
                /\ ~outcomes[k].parsed
                /\ \A n \in 1..Len(Lines(outcomes[k].sql)) :
                        \/ IsBlank(Lines(outcomes[k].sql)[n])
                        \/ IsComment(Lines(outcomes[k].sql)[n])

\* C3: every rule with a validation text gets exactly one fragment, the
\* one of the lowest-numbered recognizer that matches its text, and
\* parsed is true iff that recognizer is one of 1..5.
C3_FirstRecognizerWins ==
    pc \in AfterValidation =>
        /\ Len(outcomes) = Len(ValidationRules)
        /\ \A k \in 1..Len(outcomes) :
            /\ outcomes[k].sql =
                    FragmentOf(LowestRecognizer(ValidationRules[k].validation),
                               ValidationRules[k].field, ValidationRules[k].validation)
            /\ outcomes[k].parsed = (LowestRecognizer(ValidationRules[k].validation) <= 5)

\* C3 witness: a text that the numeric and the length recognizer both match
\* was compiled into the numeric check.
C3_Witness ==
    /\ pc \in AfterValidation
    /\ Len(outcomes) = 1
    /\ NumericMatch(ValidationRules[1].validation)
    /\ LenMatch(ValidationRules[1].validation)
    /\ outcomes[1].parsed
    /\ outcomes[1].sql = NumericBlock(ValidationRules[1].field, ValidationRules[1].validation,
                                      table_name, batch_col)

\* text s occurs in the section although it holds a quote, and s is no part
\* of its own escaped form: the occurrence is an unescaped copy
UnescapedCopy(section, s) ==
    HasQuote(s) /\ ~Contains(escape_plsql(s), s) /\ Contains(section, s)

\* C4 as stated: no field name, rule text or transformation text reaches a
\* generated section with a single quote that is not doubled.
C4_EveryInterpolationEscaped ==
    pc \in AfterMandatory =>
        \A i \in 1..Len(rules) :
            /\ ~UnescapedCopy(mandatory_sql, rules[i].field)
            /\ ~UnescapedCopy(validation_sql, rules[i].field)
            /\ ~UnescapedCopy(validation_sql, rules[i].validation)
            /\ ~UnescapedCopy(transformation_sql, rules[i].field)
            /\ ~UnescapedCopy(transformation_sql, rules[i].transformation)

\* the phrases of the input family that are an "if ... not null" qualifier
QualifierPhrases == {V_IF_NOT_NULL, V_IF_GIVEN}

HasQualifier(text) == \E q \in QualifierPhrases : Contains(text, q)

\* the statement of a live validation block: what follows its header line
\* "-- Validation: <field> - <rule text>"
StatementOf(sql, field, text) ==
    SubSeq(sql, Len(L_VAL_HDR) + Len(field) + Len(L_DASH) + Len(text) + 2, Len(sql))

IsGuardLine(line) == Contains(line, L_IS_NOT_NULL)

NotGuardLine(line) == ~IsGuardLine(line)

GuardCount(stmt) ==
    Cardinality({n \in 1..Len(Lines(stmt)) : IsGuardLine(Lines(stmt)[n])})

\* the statement without its guard lines
WithoutGuards(stmt) == Join(SelectSeq(Lines(stmt), NotGuardLine), NL)

\* the enumeration clause of the text: what the pattern-1 regex matched
OnlyClauseAt(text, i) == SubSeq(text, i, OnlyMatchAt(text, i) - 1)

OnlyClause(text) == OnlyClauseAt(text, Min({k \in 1..Len(text) : OnlyMatchAt(text, k) # 0}))

\* C5: the check emitted for an enumeration text has no IS NOT NULL guard
\* when the text holds no qualifier phrase and exactly one when it holds
\* one, before or after the enumeration clause; apart from the guard the
\* statement is the one emitted for the enumeration clause alone.
C5_GuardIffQualifier ==
    pc \in AfterValidation =>
        \A k \in 1..Len(outcomes) :
            OnlyMatch(ValidationRules[k].validation) =>
                /\ GuardCount(StatementOf(outcomes[k].sql, ValidationRules[k].field,
                                          ValidationRules[k].validation))
                     = IF HasQualifier(ValidationRules[k].validation) THEN 1 ELSE 0
                /\ WithoutGuards(StatementOf(outcomes[k].sql, ValidationRules[k].field,
                                             ValidationRules[k].validation))
                     = StatementOf(
                          parse_validation_rule(ValidationRules[k].field,
                                                OnlyClause(ValidationRules[k].validation),
                                                table_name, batch_col).sql,
                          ValidationRules[k].field,
                          OnlyClause(ValidationRules[k].validation))

\* C5 witness: the qualifier stands before the enumeration clause and the
\* check carries one guard.
C5_Witness ==
    /\ pc \in AfterValidation
    /\ Len(outcomes) = 1
    /\ ValidationRules[1].validation = V_IF_NOT_NULL \o <<" ">> \o V_ENUM
    /\ GuardCount(StatementOf(outcomes[1].sql, ValidationRules[1].field,
                              ValidationRules[1].validation)) = 1

\* the warnings that carry line number n
WarningsOfLine(n) ==
    SelectSeq(warnings, LAMBDA w : StartsWith(w, W_LINE \o Decimal(n) \o L_COLON))

\* C6: the scan reports no comment line; it reports a line DROP TABLE x
\* exactly once, with its 1-based line number and its trimmed text; and it
\* returns true iff it reported nothing.
C6_ScanReport ==
    pc \in AfterScan =>
        /\ \A n \in 1..Len(Lines(body_sql)) :
            /\ IsComment(Lines(body_sql)[n]) => WarningsOfLine(n) = <<>>
            /\ Upper(Strip(Lines(body_sql)[n])) = Upper(LN_DROP) =>
                    WarningsOfLine(n) =
                        <<W_LINE \o Decimal(n) \o L_COLON \o Strip(Lines(body_sql)[n])>>
        /\ scan_clean = (Len(warnings) = 0)

\* C6 witness: a body whose first line is the commented DROP and whose
\* second line is the live one: one warning, for line 2.
C6_Witness ==
    /\ pc \in AfterScan
    /\ Lines(body_sql) = <<LN_COMMENTED_DROP, LN_DROP>>
    /\ warnings = <<W_LINE \o <<"2">> \o L_COLON \o LN_DROP>>
    /\ ~scan_clean

\* the line holds one of the destructive keywords, in any letter case, at
\* any position
HoldsKeyword(line) ==
    \E kw \in {<<"D","R","O","P">>, <<"T","R","U","N","C","A","T","E">>, <<"A","L","T","E","R">>} :
        Contains(Upper(line), kw)

\* C7 as stated: every line that is no comment and holds DROP, TRUNCATE or
\* ALTER anywhere, also as its last token, is reported, and the scan
\* returns false.
C7_EveryKeywordReported ==
    pc \in AfterScan =>
        \A n \in 1..Len(Lines(body_sql)) :
            (~IsComment(Lines(body_sql)[n]) /\ HoldsKeyword(Lines(body_sql)[n])) =>
                (WarningsOfLine(n) # <<>> /\ ~scan_clean)

FileWritten(kind) == \E i \in 1..Len(files) : files[i].kind = kind

\* C8: the scan is advisory.  The step after the scan is the write of the
\* .pks, whatever the scan found, and the scan changes neither rendered
\* text; the .pks is written with the rendered spec and then the .pkb with
\* the rendered body.
C8_ScanNeverBlocks ==
    [][/\ pc = "validate_generated_sql" =>
            /\ pc' = "write_spec"
            /\ spec_sql' = spec_sql
            /\ body_sql' = body_sql
            /\ files' = files
       /\ pc = "write_spec" =>
            /\ pc' = "write_body"
            /\ files' = Append(files, [kind |-> "pks",
                                       content |-> render(env.tpl_spec.text, Common)])
       /\ pc = "write_body" =>
            /\ pc' = "done"
            /\ files' = Append(files, [kind |-> "pkb",
                                       content |-> render(env.tpl_body.text, BodyReplacements)])
      ]_vars

\* C8 witness: a run whose scan reported a destructive keyword has ended
\* with both artifacts written.
C8_Witness ==
    /\ pc = "done"
    /\ warnings # <<>>
    /\ FileWritten("pks")
    /\ FileWritten("pkb")

\* the rules record as main() dumps it
RulesRecord ==
    [kind |-> "rules_json",
     content |-> [table_name |-> table_name, package_name |-> pkg_name,
                  batch_column |-> batch_col, rules |-> rules]]

\* C9: once the run is past the write of the rules record (generating,
\* rendering, scanning, writing, or stopped on a missing template), the
\* record is the first file written, and a .pks or .pkb is only ever
\* written after it.
C9_RecordFirst ==
    /\ (pc \in {"generate_mandatory_sql"} \cup AfterMandatory
            \/ (pc = "exit" /\ rules # <<>>)) =>
        (files # <<>> /\ files[1] = RulesRecord)
    /\ \A i \in 1..Len(files) :
        files[i].kind \in {"pks", "pkb"} => (i > 1 /\ files[1].kind = "rules_json")

\* C9 witness: a run stopped because a template is missing, with the rules
\* record as the only file written.
C9_Witness ==
    /\ pc = "exit"
    /\ ~env.tpl_body.exists
    /\ env.tpl_spec.exists
    /\ files = <<RulesRecord>>

\* no row of the CSV has a non-empty field name
NoUsableRow == \A i \in 1..Len(env.csv.rows) : ~RowKept(env.csv.rows[i])

\* C10: with a readable config.json, a missing mapping file, a header
\* without Field or no usable row stops the run in parse_mapping_sheet:
\* exit status 1, the message of that condition on stderr, no file written
\* and no step left to run.
C10_FatalInput ==
    (env.config = ConfigOk
        /\ (~env.csv.exists \/ "Field" \notin env.csv.fieldnames \/ NoUsableRow)) =>
        /\ pc \in {"read_config", "parse_mapping_sheet", "exit"}
        /\ files = <<>>
        /\ pc = "exit" =>
            /\ exit_status = 1
            /\ ~ENABLED Next
            /\ stderr = <<IF ~env.csv.exists THEN "ERROR: Mapping sheet not found"
                          ELSE IF "Field" \notin env.csv.fieldnames
                          THEN "ERROR: CSV must have a 'Field' header."
                          ELSE "ERROR: No field rules found in mapping sheet.">>

\* C10 witness: the CSV has a Field column and a row, but the row's field
\* name is blank: the run stopped with status 1 and nothing written.
C10_Witness ==
    /\ pc = "exit"
    /\ env.csv.exists
    /\ "Field" \in env.csv.fieldnames
    /\ Len(env.csv.rows) = 1
    /\ exit_status = 1
    /\ stderr = <<"ERROR: No field rules found in mapping sheet.">>
    /\ files = <<>>

\* the steps of main() after detect_batch_column returned
AfterDetect == {"write_rules_json", "generate_mandatory_sql"} \cup AfterMandatory

\* the name holds BATCH in any letter case
NamesBatch(field) ==
    \E i \in 1..Len(field) :
        /\ i + 4 <= Len(field)
        /\ field[i] \in {"B", "b"}
        /\ field[i + 1] \in {"A", "a"}
        /\ field[i + 2] \in {"T", "t"}
        /\ field[i + 3] \in {"C", "c"}
        /\ field[i + 4] \in {"H", "h"}

\* C11: the batch column is the name, as written, of the first rule whose
\* name holds BATCH in any letter case, and the literal BATCH_ID when no
\* name holds it; resolving it raises no error and leaves the rule list
\* as parse_mapping_sheet returned it.
C11_FirstBatchNameOrDefault ==
    pc \in AfterDetect =>
        /\ \A i \in 1..Len(rules) :
            (NamesBatch(rules[i].field) /\ \A j \in 1..(i - 1) : ~NamesBatch(rules[j].field))
                => batch_col = rules[i].field
        /\ (\A i \in 1..Len(rules) : ~NamesBatch(rules[i].field))
                => batch_col = <<"B","A","T","C","H","_","I","D">>
        /\ rules = ParsedRules
        /\ pc = "write_rules_json" => (stderr = <<>> /\ exit_status # 1)

\* C11 witness: the first name holds no BATCH, the second holds it in lower
\* case and is returned as written.
C11_Witness ==
    /\ pc \in AfterDetect
    /\ Len(rules) = 2
    /\ ~NamesBatch(rules[1].field)
    /\ rules[2].field = F_BATCH_ID_LC
    /\ batch_col = F_BATCH_ID_LC

\* the header comment of a mandatory check: "-- <n>. Mandatory: <field>"
IsMandatoryHeader(line) ==
    /\ StartsWith(Strip(line), <<"-", "-", " ">>)
    /\ Contains(line, <<".", " ", "M", "a", "n", "d", "a", "t", "o", "r", "y", ":", " ">>)

MandatoryHeaders(sql) == SelectSeq(Lines(sql), IsMandatoryHeader)

\* the mandatory rules that are not the batch column, in row order
EmittedRules ==
    SelectSeq(rules, LAMBDA r : r.mandatory /\ Upper(r.field) # Upper(batch_col))

\* C12: the live mandatory checks stand in row order and the k-th carries
\* the number k, for k = 1 .. the number of emitted checks; a mandatory rule
\* that is the batch column (in any letter case) gives no check and takes
\* no number.
C12_NumbersFollowEmission ==
    pc \in AfterMandatory =>
        /\ Len(MandatoryHeaders(mandatory_sql)) = Len(EmittedRules)
        /\ LiveChecks(mandatory_sql) = Len(EmittedRules)
        /\ \A k \in 1..Len(EmittedRules) :
            Strip(MandatoryHeaders(mandatory_sql)[k]) =
                <<"-", "-", " ">> \o Decimal(k)
                    \o <<".", " ", "M", "a", "n", "d", "a", "t", "o", "r", "y", ":", " ">>
                    \o EmittedRules[k].field

\* C12 witness: the batch column is mandatory and stands first; the check
\* of the row after it carries the number 1.
C12_Witness ==
    /\ pc \in AfterMandatory
    /\ Len(rules) = 2
    /\ rules[1].mandatory /\ Upper(rules[1].field) = Upper(batch_col)
    /\ rules[2].mandatory /\ rules[2].field = F_ID
    /\ Len(MandatoryHeaders(mandatory_sql)) = 1
    /\ StartsWith(Strip(MandatoryHeaders(mandatory_sql)[1]), <<"-", "-", " ", "1", ".">>)

NotBlank(line) == ~IsBlank(line)

\* C13: the mandatory section is never empty or blank; when no check is
\* emitted (no rule is mandatory, or only the batch column is) the section
\* is one comment line and holds no live check.
C13_NeverBlankSection ==
    pc \in AfterMandatory =>
        /\ SelectSeq(Lines(mandatory_sql), NotBlank) # <<>>
        /\ EmittedRules = <<>> =>
            /\ Len(SelectSeq(Lines(mandatory_sql), NotBlank)) = 1
            /\ IsComment(SelectSeq(Lines(mandatory_sql), NotBlank)[1])
            /\ LiveChecks(mandatory_sql) = 0

\* C13 witness: the only mandatory rule is the batch column, and the
\* section is the one comment line.
C13_Witness ==
    /\ pc \in AfterMandatory
    /\ Len(rules) = 1
    /\ rules[1].mandatory
    /\ rules[1].field = batch_col
    /\ Lines(mandatory_sql) =
         <<<<" "," "," "," "," "," "," "," ","-","-"," ","N","o"," ","m","a","n","d","a","t","o",
             "r","y"," ","f","i","e","l","d"," ","c","h","e","c","k","s"," ","d","e","f","i","n",
             "e","d",".">>, <<>>>>

\* the rows of the CSV with a non-empty field name, in file order
KeptRows == SelectSeq(env.csv.rows, LAMBDA row : Strip(row.Field) # <<>>)

\* the Mandatory cell as the reader hands it over: empty when the header
\* has no such column
MandatoryCell(row) == IF "Mandatory" \in env.csv.fieldnames THEN row.Mandatory ELSE <<>>

\* C14: the rule of every kept row is mandatory iff the row's Mandatory
\* cell, trimmed and upper-cased, is YES; NO, Y, an empty cell and a
\* missing Mandatory column all give false, ' yes ' gives true.
C14_MandatoryIffYes ==
    pc \in {"detect_batch_column"} \cup AfterDetect =>
        /\ Len(rules) = Len(KeptRows)
        /\ \A k \in 1..Len(rules) :
            /\ rules[k].mandatory =
                    (Upper(Strip(MandatoryCell(KeptRows[k]))) = <<"Y", "E", "S">>)
            /\ MandatoryCell(KeptRows[k]) \in {C_YES, C_YES_PADDED} => rules[k].mandatory
            /\ MandatoryCell(KeptRows[k]) \in {C_NO, C_Y, <<>>} => ~rules[k].mandatory

\* C14 witness: a sheet whose first row has the cell ' yes ' and whose
\* second row has the cell 'Y': the first rule is mandatory, the second
\* is not.
C14_Witness ==
    /\ pc \in AfterDetect
    /\ Len(rules) = 2
    /\ MandatoryCell(KeptRows[1]) = C_YES_PADDED
    /\ MandatoryCell(KeptRows[2]) = C_Y
    /\ rules[1].mandatory
    /\ ~rules[2].mandatory

\* the steps of main() after generate_transformation_sql returned
AfterTransformation == AfterValidation \ {"generate_transformation_sql"}

\* the first line of a transformation placeholder
IsTransformationTodo(line) ==
    StartsWith(Strip(line),
               <<"-","-"," ","T","O","D","O",":"," ","I","m","p","l","e","m","e","n","t"," ",
                 "t","r","a","n","s","f","o","r","m","a","t","i","o","n"," ","f","o","r"," ">>)

TransformationRules == SelectSeq(rules, LAMBDA r : r.transformation # <<>>)

\* C15 as stated: the transformation section holds one placeholder per rule
\* with a transformation text, in row order, and every non-blank line of
\* the section begins with the comment marker, also when a text holds a
\* line break.
C15_TransformationsDeferred ==
    pc \in AfterTransformation =>
        /\ Len(SelectSeq(Lines(transformation_sql), IsTransformationTodo))
                = Len(TransformationRules)
        /\ \A k \in 1..Len(TransformationRules) :
            Contains(SelectSeq(Lines(transformation_sql), IsTransformationTodo)[k],
                     TransformationRules[k].field)
        /\ \A n \in 1..Len(Lines(transformation_sql)) :
            \/ IsBlank(Lines(transformation_sql)[n])
            \/ IsComment(Lines(transformation_sql)[n])

\* the warnings of generate_validation_sql on stdout
ParseWarnings ==
    SelectSeq(stdout,
              LAMBDA m : m.msg = "WARNING: validation rule(s) could not be fully parsed")

\* the number of compiled rules whose text no recognizer 1..5 matches
UnmatchedCount ==
    Cardinality({k \in 1..Len(ValidationRules) :
                    LowestRecognizer(ValidationRules[k].validation) = 6})

\* C16: the outcomes are those of the rule compiler applied once to each
\* rule with a validation text, in row order, and to no other rule; the
\* count reported as a warning is the number of those rules that fell to
\* the fallback (no warning when it is zero); the section is returned and
\* the run goes on, whatever the count.
C16_OneOutcomePerValidationRule ==
    pc \in AfterValidation =>
        /\ Len(outcomes) = Len(ValidationRules)
        /\ \A k \in 1..Len(outcomes) :
            outcomes[k] = parse_validation_rule(ValidationRules[k].field,
                                                ValidationRules[k].validation,
                                                table_name, batch_col)
        /\ ParseWarnings = IF UnmatchedCount = 0 THEN <<>>
                           ELSE <<[msg |-> "WARNING: validation rule(s) could not be fully parsed",
                                   n |-> UnmatchedCount]>>
        /\ validation_sql =
             IF outcomes = <<>>
             THEN <<" "," "," "," "," "," "," "," ","-","-"," ","N","o"," ","c","u","s","t","o","m",
                    " ","v","a","l","i","d","a","t","i","o","n"," ","r","u","l","e","s"," ","d","e",
                    "f","i","n","e","d",".","\n">>
             ELSE Join([k \in 1..Len(outcomes) |-> outcomes[k].sql], <<"\n">>)
        /\ pc = "generate_transformation_sql" => (exit_status # 1 /\ stderr = <<>>)

\* C16 witness: of two rules only the second has a validation text, no
\* recognizer matches it, and the warning counts one rule.
C16_Witness ==
    /\ pc \in AfterValidation
    /\ Len(rules) = 2
    /\ rules[1].validation = <<>>
    /\ Len(outcomes) = 1
    /\ ~outcomes[1].parsed
    /\ Len(ParseWarnings) = 1
    /\ ParseWarnings[1].n = 1

\* the maximal runs of non-blank lines of a section
RECURSIVE ParagraphsOf(_, _)
ParagraphsOf(ls, cur) ==
    IF ls = <<>> THEN (IF cur = <<>> THEN <<>> ELSE <<cur>>)
    ELSE IF IsBlank(ls[1])
    THEN (IF cur = <<>> THEN <<>> ELSE <<cur>>) \o ParagraphsOf(Tail(ls), <<>>)
    ELSE ParagraphsOf(Tail(ls), Append(cur, ls[1]))

EndsWith(s, t) == Len(t) <= Len(s) /\ SubSeq(s, Len(s) - Len(t) + 1, Len(s)) = t

\* the lines ls are one comment line followed by one UPDATE statement of
\* the shape of a live check, filtered by the batch column
IsLiveCheck(ls, batch) ==
    /\ Len(ls) >= 6
    /\ IsComment(ls[1])
    /\ \A n \in 2..Len(ls) : ~IsComment(ls[n])
    /\ StartsWith(Strip(ls[2]), <<"U","P","D","A","T","E"," ">>)
    /\ \A n \in 3..Len(ls) : ~StartsWith(Strip(ls[n]), <<"U","P","D","A","T","E"," ">>)
    /\ Strip(ls[3]) = <<"S","E","T"," ","t",".","s","t","a","t","u","s"," ","="," ","'","E","'",",">>
    /\ StartsWith(Strip(ls[4]), <<"t",".","e","r","r","o","r","_","m","e","s","s","a","g","e"," ","="," ","N","V","L","(","t",".","e","r","r","o","r","_","m","e","s","s","a","g","e",","," ","'","'",")"," ","|","|"," ","'">>)
    /\ EndsWith(Strip(ls[4]), <<";", " ", "'">>)
    /\ Strip(ls[5]) = <<"W","H","E","R","E"," ","t",".">> \o batch
                        \o <<" ","=", " ","p","_","b","a","t","c","h","_","i","d">>
    /\ StartsWith(Strip(ls[6]), <<"A","N","D"," ">>)
    /\ EndsWith(Strip(ls[Len(ls)]), <<";">>)
    /\ \A n \in 2..(Len(ls) - 1) : ~EndsWith(Strip(ls[n]), <<";">>)

\* C17 as stated: every live check, mandatory or compiled by one of the
\* recognizers 1..5, is one single-line comment followed by one UPDATE
\* statement that sets status to 'E', appends a message ending in '; ' and
\* is filtered by the batch predicate and a condition, also when the rule
\* text holds a line break.
C17_LiveCheckShape ==
    pc \in AfterValidation =>
        /\ EmittedRules # <<>> =>
            \A p \in 1..Len(ParagraphsOf(Lines(mandatory_sql), <<>>)) :
                IsLiveCheck(ParagraphsOf(Lines(mandatory_sql), <<>>)[p], batch_col)
        /\ \A k \in 1..Len(outcomes) :
            outcomes[k].parsed =>
                IsLiveCheck(SelectSeq(Lines(outcomes[k].sql), NotBlank), batch_col)

\* the unescape rule of the dialect, applied once from left to right: each
\* doubled single quote becomes one single quote
RECURSIVE Unescape(_)
Unescape(s) ==
    IF s = <<>> THEN <<>>
    ELSE IF Len(s) >= 2 /\ s[1] = "'" /\ s[2] = "'"
    THEN <<"'">> \o Unescape(SubSeq(s, 3, Len(s)))
    ELSE <<s[1]>> \o Unescape(Tail(s))

\* the escaped field name inside the message literal of a numeric check:
\* line 4 of the block is
\*   t.error_message = NVL(t.error_message, '') || '<name> must be numeric; '
EscapedNameIn(sql) ==
    SubSeq(Strip(Lines(sql)[4]),
           Len(<<"t",".","e","r","r","o","r","_","m","e","s","s","a","g","e"," ","="," ","N","V",
                 "L","(","t",".","e","r","r","o","r","_","m","e","s","s","a","g","e",","," ","'",
                 "'",")"," ","|","|"," ","'">>) + 1,
           Len(Strip(Lines(sql)[4]))
             - Len(<<" ","m","u","s","t"," ","b","e"," ","n","u","m","e","r","i","c",";"," ","'">>))

\* C18: unescaping once the field name that _escape_plsql put into the
\* message of a check gives back the field name, for every name made of
\* quotes and letters.
C18_EscapeRoundTrip ==
    pc \in AfterValidation =>
        \A k \in 1..Len(outcomes) :
            ValidationRules[k].validation = V_NUMERIC =>
                Unescape(EscapedNameIn(outcomes[k].sql)) = ValidationRules[k].field

\* C18 witness: the name of one letter and two quotes went into the message
\* with four quotes.
C18_Witness ==
    /\ pc \in AfterValidation
    /\ Len(outcomes) = 1
    /\ ValidationRules[1].field = <<"a", "'", "'">>
    /\ EscapedNameIn(outcomes[1].sql) = <<"a", "'", "'", "'", "'">>

\* the fragments of one rule compiled alone, with the table name and the
\* batch column of the run
AloneMandatory(r) == generate_mandatory_sql(table_name, batch_col, <<r>>)

AloneValidation(r) == generate_validation_sql(table_name, batch_col, <<r>>)

AloneTransformation(r) == generate_transformation_sql(table_name, batch_col, <<r>>)

\* final assembly: the fragments of the rules that gave one, in row order,
\* joined by a line break; the section's placeholder when no rule gave one
Assemble(frags, placeholder) ==
    IF SelectSeq(frags, LAMBDA f : f # placeholder) = <<>> THEN placeholder
    ELSE Join(SelectSeq(frags, LAMBDA f : f # placeholder), NL)

\* a mandatory fragment compiled alone carries the number 1; the same
\* fragment with the number k
Renumbered(frag, k) == L_CMT \o Decimal(k) \o SubSeq(frag, Len(L_CMT) + 2, Len(frag))

\* the mandatory fragments compiled alone, the k-th of them renumbered to k
RenumberedAlone ==
    [k \in 1..Len(EmittedRules) |-> Renumbered(AloneMandatory(EmittedRules[k]), k)]

\* C19 as stated: every section is the assembly, in row order, of the
\* fragments that each rule gives when compiled alone, the mandatory check
\* numbers included.
C19_SectionsFromRulesAlone ==
    pc \in AfterTransformation =>
        /\ mandatory_sql =
             Assemble([k \in 1..Len(rules) |-> AloneMandatory(rules[k])], NO_MANDATORY)
        /\ validation_sql =
             Assemble([k \in 1..Len(rules) |-> AloneValidation(rules[k])], NO_VALIDATION)
        /\ transformation_sql =
             Assemble([k \in 1..Len(rules) |-> AloneTransformation(rules[k])],
                      NO_TRANSFORMATION)

\* C19 amended: the validation and the transformation section are the
\* assembly, in row order, of the fragments each rule gives when compiled
\* alone; the mandatory section is that assembly once the k-th emitted
\* check is given the number k: the check number is the one thing a
\* fragment takes from the rules before it.
C19_SectionsFromRulesAloneRenumbered ==
    pc \in AfterTransformation =>
        /\ mandatory_sql = Assemble(RenumberedAlone, NO_MANDATORY)
        /\ validation_sql =
             Assemble([k \in 1..Len(rules) |-> AloneValidation(rules[k])], NO_VALIDATION)
        /\ transformation_sql =
             Assemble([k \in 1..Len(rules) |-> AloneTransformation(rules[k])],
                      NO_TRANSFORMATION)

\* C19 witness: two mandatory checks were emitted; compiled alone the
\* second carries the number 1, in the section it carries the number 2.
C19_Witness ==
    /\ pc \in AfterTransformation
    /\ Len(EmittedRules) = 2
    /\ StartsWith(Strip(MandatoryHeaders(AloneMandatory(EmittedRules[2]))[1]),
                  <<"-", "-", " ", "1", ".">>)
    /\ StartsWith(Strip(MandatoryHeaders(mandatory_sql)[2]), <<"-", "-", " ", "2", ".">>)

\* the run on the three rows CUSTOMER_ID, STATUS, NOTES of the example
ExampleRun == env = Env(ConfigOk, Csv(AllColumns, ExampleRows), File(TPL_SPEC), File(TPL_BODY))

\* C20: on the three-row example the batch column is BATCH_ID, the
\* mandatory section holds one live check, for CUSTOMER_ID, the validation
\* section holds two live checks whose outcomes both have parsed = true,
\* the transformation section holds one placeholder and no live check, and
\* the scan reports nothing.
C20_Example ==
    ExampleRun =>
        /\ pc \in AfterDetect => batch_col = <<"B","A","T","C","H","_","I","D">>
        /\ pc \in AfterMandatory =>
            /\ LiveChecks(mandatory_sql) = 1
            /\ Len(MandatoryHeaders(mandatory_sql)) = 1
            /\ EndsWith(MandatoryHeaders(mandatory_sql)[1], F_CUSTOMER_ID)
        /\ pc \in AfterValidation =>
            /\ LiveChecks(validation_sql) = 2
            /\ Len(outcomes) = 2
            /\ outcomes[1].parsed /\ outcomes[2].parsed
            /\ Contains(outcomes[1].sql, <<"A","N","D"," ","t",".">> \o F_STATUS
                                           \o <<" ","N","O","T"," ","I","N"," ","(">>)
            /\ Contains(outcomes[2].sql, <<"A","N","D"," ","N","O","T"," ","E","X","I","S","T","S">>)
        /\ pc \in AfterTransformation =>
            /\ Len(SelectSeq(Lines(transformation_sql), IsTransformationTodo)) = 1
            /\ Contains(SelectSeq(Lines(transformation_sql), IsTransformationTodo)[1], F_NOTES)
            /\ LiveChecks(transformation_sql) = 0
        /\ pc \in AfterScan => (warnings = <<>> /\ scan_clean)

\* C20 witness: the run on the example has ended with its three files
\* written.
C20_Witness ==
    /\ ExampleRun
    /\ pc = "done"
    /\ Len(files) = 3
    /\ warnings = <<>>

(***************************************************************************)
(* ColumnsTableParser                                                      *)
(***************************************************************************)

\* C21: whatever start-tag, end-tag and data events the parser is fed, in
\* whatever order (tables inside the target table, with or without
\* summary="Columns", end tags without a start tag), in_target_table is
\* true exactly when table_depth is at least 1, table_depth is never
\* negative, and rows and headers change only in the handling of a </tr>
\* that arrives while in_target_table is true.
C21_DepthAndRowsDiscipline ==
    /\ [](/\ in_target_table <=> table_depth >= 1
          /\ table_depth >= 0)
    /\ [][(rows' # rows \/ headers' # headers) =>
            /\ event' = EndTag("tr")
            /\ in_target_table]_vars

\* a data row was recorded at the </tr> of a row of the target table that
\* holds a nested table
C21_Witness ==
    /\ event = EndTag("tr")
    /\ in_target_table
    /\ table_depth = 2
    /\ Len(rows) = 1

(***************************************************************************)
(* execute_on_atp                                                          *)
(***************************************************************************)

\* the call is over
AtpOver == atp_exit # "running"

\* the CREATE statement was passed to cursor.execute
CreateExecuted == \E i \in 1..Len(executed) : executed[i].sql = exec_sql

\* C22: once the connection has been opened, every way out of
\* execute_on_atp (the table exists, the table was created, the database
\* raised an error) leaves the cursor and the connection closed; the CREATE
\* statement is executed, and the commit made, only after the existence
\* check returned false, so never when the table exists and never when the
\* connection attempt failed.
C22_ClosedOnEveryPathCreateOnlyIfAbsent ==
    /\ (AtpOver /\ connection # "none") => (cursor = "closed" /\ connection = "closed")
    /\ CreateExecuted => (exists = "FALSE" /\ connection # "none")
    /\ committed > 0 => (CreateExecuted /\ exists = "FALSE")
    /\ committed <= 1
    /\ exists = "TRUE" => (~CreateExecuted /\ committed = 0)
    /\ (AtpOver /\ connection = "none") => (executed = <<>> /\ committed = 0)

\* the CREATE statement failed with a database error, and the call ended
\* in sys.exit(1) with the cursor and the connection closed
C22_Witness ==
    /\ atp_exit = "exit 1"
    /\ CreateExecuted
    /\ committed = 0
    /\ connection = "closed"
    /\ cursor = "closed"

=============================================================================
